---------------------------- MODULE Spec2Model ----------------------------
(***************************************************************************)
(* A model of the import pipeline of fscl: the file dispatcher parseFile,  *)
(* the format readers behind it, the import command that consumes its      *)
(* result, and the two leaf normalizers (amounts and dates).               *)
(*                                                                         *)
(* Text is modelled as a sequence of one-character strings, so that the    *)
(* regular expressions and slices of the source can be followed character  *)
(* by character.  A number is the pair <<m, e>> standing for m * 10^-e in  *)
(* lowest terms (no trailing zero in the fraction); NaN and null are the   *)
(* tuples NaN and NULL, of other lengths than a number.                    *)
(***************************************************************************)
EXTENDS Integers, Sequences, FiniteSets, TLC

VARIABLES
    \* ---- the amount normalizer run on one text (SpecAmount)
    text,       \* the input string
    aout,       \* [first, str, second]: parse, String(parse), parse again
    apc,        \* "idle" | "start" | "parsed" | "done"
    \* ---- the date normalizer run on one rendered date (SpecDate)
    din,        \* [y, m, d, order, sep]: the date, the field order, the separator
    dtext,      \* the rendered text handed to parseDate
    dout,       \* what parseDate returned
    dpc,        \* "idle" | "start" | "rendered" | "done"
    \* ---- one run of the import command on one file (Spec)
    importPath,        \* the path given to the command
    disk,              \* the file at that path: [readable, lines, xml]
    importOptions,     \* the options given to the command
    cmd,               \* where the command stands: "idle" | "start" | "open" |
                       \* "reader" | "parsed" | "validate" | "insert" | "done"
    parseResult,       \* what parseFile returned: [errors, transactions, fileType]
    normalizedResult,  \* what the normalization gave: [threw, transactions, errors]
    ledger,            \* the rows the budget has taken in
    insertCalls,       \* calls of api.addTransactions / api.importTransactions
    exitCode,          \* process.exitCode
    \* ---- one call of a function of the CSV import (SpecCsv)
    call,       \* the function called and its arguments
    ret         \* [done, value]: whether it has returned, and what

vars == <<text, aout, apc, din, dtext, dout, dpc,
          importPath, disk, importOptions, cmd, parseResult, normalizedResult,
          ledger, insertCalls, exitCode, call, ret>>

-----------------------------------------------------------------------------
(* Characters and strings *)

Digits == {"0", "1", "2", "3", "4", "5", "6", "7", "8", "9"}

\* U+2212 MINUS SIGN, one character of the source text.
UMinus == "u2212"

\* The value of `undefined`/`null` where the source expects a string.
Absent == <<"undefined">>

NULL == <<>>
NaN == <<"NaN">>

IsSpace(c) == c \in {" ", "\t", "\n", "\r"}

DigitVal(c) ==
    CASE c = "0" -> 0 [] c = "1" -> 1 [] c = "2" -> 2 [] c = "3" -> 3
      [] c = "4" -> 4 [] c = "5" -> 5 [] c = "6" -> 6 [] c = "7" -> 7
      [] c = "8" -> 8 [] c = "9" -> 9

DigitChar(n) ==
    CASE n = 0 -> "0" [] n = 1 -> "1" [] n = 2 -> "2" [] n = 3 -> "3"
      [] n = 4 -> "4" [] n = 5 -> "5" [] n = 6 -> "6" [] n = 7 -> "7"
      [] n = 8 -> "8" [] n = 9 -> "9"

RECURSIVE Pow10(_)
Pow10(k) == IF k <= 0 THEN 1 ELSE 10 * Pow10(k - 1)

Abs(n) == IF n < 0 THEN -n ELSE n

\* the one element of a set of one element: {F(x) : x \in {e}} names the
\* value of e once, as a local constant of the source does
The(set) == CHOOSE x \in set : TRUE

\* String.prototype.trim
RECURSIVE TrimStart(_)
TrimStart(s) ==
    IF s # <<>> /\ IsSpace(Head(s)) THEN TrimStart(Tail(s)) ELSE s

RECURSIVE TrimEnd(_)
TrimEnd(s) ==
    IF s # <<>> /\ IsSpace(s[Len(s)]) THEN TrimEnd(SubSeq(s, 1, Len(s) - 1)) ELSE s

Trim(s) == TrimEnd(TrimStart(s))

\* s.slice(i) with i counted from 0: the characters after the first i
From(s, i) == SubSeq(s, i + 1, Len(s))

\* s.replace(/c/g, r)
ReplaceAllChar(s, c, r) ==
    [i \in 1..Len(s) |-> IF s[i] = c THEN r ELSE s[i]]

RemoveAllChar(s, c) == SelectSeq(s, LAMBDA x : x # c)

\* s.replace(c, r) with a string pattern: the first occurrence only
RECURSIVE ReplaceFirstChar(_, _, _)
ReplaceFirstChar(s, c, r) ==
    IF s = <<>> THEN <<>>
    ELSE IF Head(s) = c THEN r \o Tail(s)
    ELSE <<Head(s)>> \o ReplaceFirstChar(Tail(s), c, r)

\* the value of a run of decimal digits (0 for the empty run)
RECURSIVE IntOf(_)
IntOf(ds) ==
    IF ds = <<>> THEN 0 ELSE 10 * IntOf(SubSeq(ds, 1, Len(ds) - 1)) + DigitVal(ds[Len(ds)])

\* the decimal digits of a natural number
RECURSIVE DigitsOf(_)
DigitsOf(n) ==
    IF n < 10 THEN <<DigitChar(n)>> ELSE DigitsOf(n \div 10) \o <<DigitChar(n % 10)>>

DigitsIn(s) == SelectSeq(s, LAMBDA c : c \in Digits)

\* how many digit characters s has from position i on
RECURSIVE DigitRun(_, _)
DigitRun(s, i) ==
    IF i <= Len(s) /\ s[i] \in Digits THEN 1 + DigitRun(s, i + 1) ELSE 0

-----------------------------------------------------------------------------
(* Numbers *)

RECURSIVE Norm(_, _)
Norm(m, e) == IF e > 0 /\ m % 10 = 0 THEN Norm(m \div 10, e - 1) ELSE <<m, e>>

\* parseFloat on a text over digits, '-' and '.': the longest prefix that is
\* a decimal literal ([+-] digits [. digits]), NaN when it has no digit.
\* Every text that reaches parseFloat here has had all other characters
\* stripped by its caller, so no exponent part can occur.
ParseFloat(s) ==
    LET t == TrimStart(s)
        signed == t # <<>> /\ t[1] \in {"-", "+"}
        b == IF signed THEN 2 ELSE 1
        na == DigitRun(t, b)
        hasDot == b + na <= Len(t) /\ t[b + na] = "."
        nb == IF hasDot THEN DigitRun(t, b + na + 1) ELSE 0
        mant == IntOf(SubSeq(t, b, b + na - 1) \o SubSeq(t, b + na + 1, b + na + nb))
    IN  IF na + nb = 0 THEN NaN
        ELSE Norm(IF signed /\ t[1] = "-" THEN -mant ELSE mant, nb)

\* Number.MAX_SAFE_INTEGER = 9007199254740991 has 16 digits.
MaxSafeDigits == 16

\* safeNumber: null for NaN and when value * 100 leaves the safe integer
\* range.  The integers of the model stay far below that range, so the test
\* is made on the number of digits of the cents: more than MaxSafeDigits of
\* them is out of range.
safeNumber(v) ==
    IF v = NaN THEN NULL
    ELSE IF Len(DigitsOf(Abs(v[1]))) + 2 - v[2] > MaxSafeDigits THEN NULL
    ELSE v

\* String(value) of a number: JavaScript's shortest decimal rendering, with
\* the exponent form for magnitudes below 1e-6.
NumberToString(v) ==
    IF v = NULL THEN <<"n", "u", "l", "l">>
    ELSE IF v = NaN THEN <<"N", "a", "N">>
    ELSE IF v[1] = 0 THEN <<"0">>
    ELSE
        LET sign == IF v[1] < 0 THEN <<"-">> ELSE <<>>
            ds == DigitsOf(Abs(v[1]))
            k == Len(ds)
            n == k - v[2]      \* digits before the decimal point
        IN  IF v[2] = 0 THEN sign \o ds
            ELSE IF n > 0 THEN sign \o SubSeq(ds, 1, n) \o <<".">> \o SubSeq(ds, n + 1, k)
            ELSE IF n > -6 THEN sign \o <<"0", ".">> \o [i \in 1..(-n) |-> "0"] \o ds
            ELSE sign \o <<ds[1]>> \o (IF k > 1 THEN <<".">> \o SubSeq(ds, 2, k) ELSE <<>>)
                      \o <<"e", "-">> \o DigitsOf(1 - n)

-----------------------------------------------------------------------------
(* The amount normalizer: looselyParseAmount *)

Separators == {".", ","}

\* the same keeping the '.' as well
extractNumbersKeepsDot(value) == SelectSeq(value, LAMBDA c : c \in Digits \cup {"-", "."})

\* value.replace(/[^0-9-]/g, '')
extractNumbers(value) == SelectSeq(value, LAMBDA c : c \in Digits \cup {"-"})

\* whether /[.,]([^.,]{4,9}|[^.,]{1,2})$/ matches with its separator at i
MatchesAt(amount, i) ==
    /\ amount[i] \in Separators
    /\ \A j \in (i + 1)..Len(amount) : amount[j] \notin Separators
    /\ \/ Len(amount) - i \in 4..9
       \/ Len(amount) - i \in 1..2

\* the same with the quantifier {1,9}: a group of three counts as decimals
DecimalMatchAnyGroup(amount) ==
    LET hits == {i \in 1..Len(amount) :
                    /\ amount[i] \in Separators
                    /\ \A j \in (i + 1)..Len(amount) : amount[j] \notin Separators
                    /\ Len(amount) - i \in 1..9}
    IN  IF hits = {} THEN 0 ELSE CHOOSE i \in hits : \A j \in hits : i <= j

\* amount.match(/[.,]([^.,]{4,9}|[^.,]{1,2})$/): match.index + 1 of the
\* leftmost match, 0 when there is none
DecimalMatch(amount) ==
    LET hits == {i \in 1..Len(amount) : MatchesAt(amount, i)}
    IN  IF hits = {} THEN 0 ELSE CHOOSE i \in hits : \A j \in hits : i <= j

\* `${right}.${left}`: the operands swapped
JoinDecimalSwapped(left, right) == right \o <<".">> \o left

\* `${left}.${right}`
JoinDecimal(left, right) == left \o <<".">> \o right

looselyParseAmount(input) ==
    IF input = Absent THEN NULL
    ELSE
        LET trimmed == Trim(input)
            amount ==
                IF trimmed # <<>> /\ Head(trimmed) = "(" /\ trimmed[Len(trimmed)] = ")"
                THEN ReplaceFirstChar(
                         ReplaceFirstChar(RemoveAllChar(trimmed, UMinus), "(", <<"-">>),
                         ")", <<>>)
                ELSE ReplaceAllChar(trimmed, UMinus, "-")
            at == DecimalMatch(amount)
            left == extractNumbers(SubSeq(amount, 1, at - 1))
            right == extractNumbers(From(amount, at))
        IN  IF trimmed = <<>> THEN NULL
            ELSE IF at = 0 THEN safeNumber(ParseFloat(extractNumbers(amount)))
            ELSE safeNumber(ParseFloat(JoinDecimal(left, right)))

-----------------------------------------------------------------------------
(* The date normalizer: parseDate *)

LowerLetters ==
    {"a", "b", "c", "d", "e", "f", "g", "h", "i", "j", "k", "l", "m",
     "n", "o", "p", "q", "r", "s", "t", "u", "v", "w", "x", "y", "z"}

UpperToLower ==
    [c \in {"A", "B", "C", "D", "E", "F", "G", "H", "I", "J", "K", "L", "M",
            "N", "O", "P", "Q", "R", "S", "T", "U", "V", "W", "X", "Y", "Z"} |->
        CASE c = "A" -> "a" [] c = "B" -> "b" [] c = "C" -> "c" [] c = "D" -> "d"
          [] c = "E" -> "e" [] c = "F" -> "f" [] c = "G" -> "g" [] c = "H" -> "h"
          [] c = "I" -> "i" [] c = "J" -> "j" [] c = "K" -> "k" [] c = "L" -> "l"
          [] c = "M" -> "m" [] c = "N" -> "n" [] c = "O" -> "o" [] c = "P" -> "p"
          [] c = "Q" -> "q" [] c = "R" -> "r" [] c = "S" -> "s" [] c = "T" -> "t"
          [] c = "U" -> "u" [] c = "V" -> "v" [] c = "W" -> "w" [] c = "X" -> "x"
          [] c = "Y" -> "y" [] c = "Z" -> "z"]

\* String.prototype.toLowerCase, one character
LowerChar(c) == IF c \in DOMAIN UpperToLower THEN UpperToLower[c] ELSE c

ToLowerCase(s) == [i \in 1..Len(s) |-> LowerChar(s[i])]

\* \w of a regular expression
IsWordChar(c) == LowerChar(c) \in LowerLetters \cup Digits \cup {"_"}

WordAt(s, i) == i >= 1 /\ i <= Len(s) /\ IsWordChar(s[i])

\* \b matches in front of position i
Boundary(s, i) == WordAt(s, i - 1) # WordAt(s, i)

\* the characters of s from position i on spell w, whatever their case
SpellsAt(s, i, w) ==
    /\ i + Len(w) - 1 <= Len(s)
    /\ \A k \in 1..Len(w) : LowerChar(s[i + k - 1]) = w[k]

\* /\b<abbr>(\.|<rest>)?\b/i tried at position i: the position after the
\* match, 0 when it does not match there.  The alternatives are tried in
\* the order of the expression: the period, the rest of the name, nothing.
MonthMatchEnd(s, i, abbr, rest) ==
    LET j == i + Len(abbr)
    IN  IF ~(Boundary(s, i) /\ SpellsAt(s, i, abbr)) THEN 0
        ELSE IF j <= Len(s) /\ s[j] = "." /\ Boundary(s, j + 1) THEN j + 1
        ELSE IF rest # <<>> /\ SpellsAt(s, j, rest) /\ Boundary(s, j + Len(rest))
             THEN j + Len(rest)
        ELSE IF Boundary(s, j) THEN j
        ELSE 0

\* source.replace(/\b<abbr>(\.|<rest>)?\b/i, digits): the leftmost match only
ReplaceMonth(s, abbr, rest, digits) ==
    LET hits == {i \in 1..Len(s) : MonthMatchEnd(s, i, abbr, rest) > 0}
    IN  IF hits = {} THEN s
        ELSE LET i == CHOOSE x \in hits : \A y \in hits : x <= y
             IN  SubSeq(s, 1, i - 1) \o digits
                     \o SubSeq(s, MonthMatchEnd(s, i, abbr, rest), Len(s))

\* the twelve expressions of parseDate, in the order they are applied:
\* the abbreviation, the rest of the name, the digits put in its place
MonthNames ==
    << <<<<"j", "a", "n">>, <<"u", "a", "r", "y">>, <<"0", "1">>>>,
       <<<<"f", "e", "b">>, <<"r", "u", "a", "r", "y">>, <<"0", "2">>>>,
       <<<<"m", "a", "r">>, <<"c", "h">>, <<"0", "3">>>>,
       <<<<"a", "p", "r">>, <<"i", "l">>, <<"0", "4">>>>,
       <<<<"m", "a", "y">>, <<>>, <<"0", "5">>>>,
       <<<<"j", "u", "n">>, <<"e">>, <<"0", "6">>>>,
       <<<<"j", "u", "l">>, <<"y">>, <<"0", "7">>>>,
       <<<<"a", "u", "g">>, <<"u", "s", "t">>, <<"0", "8">>>>,
       <<<<"s", "e", "p">>, <<"t", "e", "m", "b", "e", "r">>, <<"0", "9">>>>,
       <<<<"o", "c", "t">>, <<"o", "b", "e", "r">>, <<"1", "0">>>>,
       <<<<"n", "o", "v">>, <<"e", "m", "b", "e", "r">>, <<"1", "1">>>>,
       <<<<"d", "e", "c">>, <<"e", "m", "b", "e", "r">>, <<"1", "2">>>> >>

\* the first k replacements applied to s, one after the other
RECURSIVE ReplaceMonths(_, _)
ReplaceMonths(s, k) ==
    IF k = 0 THEN s
    ELSE ReplaceMonth(ReplaceMonths(s, k - 1),
                      MonthNames[k][1], MonthNames[k][2], MonthNames[k][3])

withMonthDigits(source) == ReplaceMonths(source, Len(MonthNames))

\* value.split(/[^\d]+/).filter(Boolean): the maximal runs of digits
RECURSIVE DigitTokens(_)
DigitTokens(s) ==
    IF s = <<>> THEN <<>>
    ELSE IF Head(s) \notin Digits THEN DigitTokens(Tail(s))
    ELSE LET n == DigitRun(s, 1)
         IN  <<SubSeq(s, 1, n)>> \o DigitTokens(From(s, n))

\* s.slice(from, to), both counted from 0 and not negative
Slice(s, from, to) ==
    IF to <= from THEN <<>> ELSE SubSeq(s, from + 1, IF to > Len(s) THEN Len(s) ELSE to)

\* fromLayout slicing (a, b) instead of (a, a + b)
fromLayoutShortSlice(text0, a, b) ==
    LET digits == DigitTokens(text0)
        fallbackDigits == DigitsIn(text0)
    IN  IF Len(digits) >= 3 THEN SubSeq(digits, 1, 3)
        ELSE << Slice(fallbackDigits, 0, a),
                Slice(fallbackDigits, a, b),
                From(fallbackDigits, a + b) >>

\* fromLayout(a, b), over the text with its month names replaced
fromLayout(text0, a, b) ==
    LET digits == DigitTokens(text0)
        fallbackDigits == DigitsIn(text0)
    IN  IF Len(digits) >= 3 THEN SubSeq(digits, 1, 3)
        ELSE << Slice(fallbackDigits, 0, a),
                Slice(fallbackDigits, a, a + b),
                From(fallbackDigits, a + b) >>

\* s.padStart(n, '0')
PadStart(s, n) == IF Len(s) >= n THEN s ELSE [i \in 1..(n - Len(s)) |-> "0"] \o s

IsLeapYear(y) == y % 400 = 0 \/ (y % 4 = 0 /\ y % 100 # 0)

DaysInMonth(y, m) ==
    IF m = 2 THEN (IF IsLeapYear(y) THEN 29 ELSE 28)
    ELSE IF m \in {4, 6, 9, 11} THEN 30 ELSE 31

\* isValid(parseISO(`${year}-${month}-${day}`)) for three runs of digits:
\* parseISO takes a four-digit year, a two-digit month and a two-digit day
\* and nothing longer, and the date must exist in the calendar.
IsValidIso(year, month, day) ==
    /\ Len(year) = 4 /\ Len(month) = 2 /\ Len(day) = 2
    /\ IntOf(month) \in 1..12
    /\ IntOf(day) \in 1..DaysInMonth(IntOf(year), IntOf(month))

DateFormats ==
    <<"yyyy mm dd", "yy mm dd", "mm dd yyyy", "mm dd yy", "dd mm yyyy", "dd mm yy">>

Century == <<"2", "0">>

\* the year, month and day taken from the text by the field order, padded,
\* validated and joined (the switch of parseDate and what follows it)
assembleDate(text0, order) ==
    LET p22 == fromLayout(text0, 2, 2)
        p42 == fromLayout(text0, 4, 2)
        ymd ==
            CASE order = "dd mm yyyy" -> <<p22[3], p22[2], p22[1]>>
              [] order = "dd mm yy" -> <<Century \o p22[3], p22[2], p22[1]>>
              [] order = "yyyy mm dd" -> <<p42[1], p42[2], p42[3]>>
              [] order = "yy mm dd" -> <<Century \o p22[1], p22[2], p22[3]>>
              [] order = "mm dd yy" -> <<Century \o p22[3], p22[1], p22[2]>>
              [] OTHER -> <<p22[3], p22[1], p22[2]>>
        year == PadStart(ymd[1], 4)
        month == PadStart(ymd[2], 2)
        day == PadStart(ymd[3], 2)
    IN  IF ~IsValidIso(year, month, day) THEN NULL
        ELSE year \o <<"-">> \o month \o <<"-">> \o day

parseDate(value, order) ==
    IF value = Absent THEN NULL
    ELSE IF Trim(value) = <<>> THEN NULL
    ELSE The({assembleDate(text0, order) : text0 \in {withMonthDigits(Trim(value))}})

-----------------------------------------------------------------------------
(* The QIF reader: qifToJson *)

\* s.split(c): the parts of s between the occurrences of the character c
RECURSIVE SplitOn(_, _)
SplitOn(s, c) ==
    LET at == {i \in 1..Len(s) : s[i] = c}
    IN  IF at = {} THEN <<s>>
        ELSE LET i == CHOOSE x \in at : \A y \in at : x <= y
             IN  <<SubSeq(s, 1, i - 1)>> \o SplitOn(From(s, i), c)

StartsWith(s, pat) == Len(pat) <= Len(s) /\ SubSeq(s, 1, Len(pat)) = pat

\* s.replace(/pat/g, rep) for a literal pattern
RECURSIVE ReplaceAllSub(_, _, _)
ReplaceAllSub(s, pat, rep) ==
    IF s = <<>> THEN <<>>
    ELSE IF StartsWith(s, pat) THEN rep \o ReplaceAllSub(From(s, Len(pat)), pat, rep)
    ELSE <<Head(s)>> \o ReplaceAllSub(Tail(s), pat, rep)

TypeTag == <<"!", "T", "y", "p", "e", ":">>

typeMatchAnyLine(line) == TRUE

\* /!Type:([^$]*)$/.exec(line): "!Type:" somewhere in the line with no '$'
\* after it
typeMatch(line) ==
    \E i \in 1..Len(line) :
        /\ StartsWith(From(line, i - 1), TypeTag)
        /\ \A j \in (i + Len(TypeTag))..Len(line) : line[j] # "$"

\* let transaction: QifTransaction = {}
EmptyTransaction ==
    [date |-> Absent, amount |-> Absent, number |-> Absent, memo |-> Absent,
     address |-> <<>>, clearedStatus |-> Absent, category |-> Absent,
     subcategory |-> Absent, payee |-> Absent, division |-> <<>>]

\* let division: Division = {}
EmptyDivision ==
    [category |-> Absent, subcategory |-> Absent, description |-> Absent,
     amount |-> Absent]

HasKeysAlways(transaction) == TRUE

\* Object.keys(transaction).length > 0
HasKeys(transaction) == transaction # EmptyTransaction

Threw(message) == [threw |-> TRUE, message |-> message, transactions |-> <<>>]
Returned(transactions) == [threw |-> FALSE, message |-> "", transactions |-> transactions]

DetailCodes == {"D", "T", "N", "M", "A", "P", "L", "C", "S", "E", "$"}

\* the switch on line[0], but for '$': the transaction after a detail line
WithDetail(transaction, line) ==
    LET rest == From(line, 1)
        parts == SplitOn(rest, ":")
    IN  CASE line[1] = "D" -> [transaction EXCEPT !.date = rest]
          [] line[1] = "T" -> [transaction EXCEPT !.amount = rest]
          [] line[1] = "N" -> [transaction EXCEPT !.number = rest]
          [] line[1] = "M" -> [transaction EXCEPT !.memo = rest]
          [] line[1] = "A" -> [transaction EXCEPT !.address = @ \o <<rest>>]
          [] line[1] = "P" ->
                [transaction EXCEPT
                    !.payee = ReplaceAllSub(rest, <<"&", "a", "m", "p", ";">>, <<"&">>)]
          [] line[1] = "L" ->
                [transaction EXCEPT
                    !.category = parts[1],
                    !.subcategory = IF Len(parts) >= 2 THEN parts[2] ELSE @]
          [] line[1] = "C" -> [transaction EXCEPT !.clearedStatus = rest]
          [] OTHER -> transaction

\* the switch on line[0], but for '$': the division after a detail line
DivisionAfter(division, line) ==
    LET rest == From(line, 1)
        parts == SplitOn(rest, ":")
    IN  CASE line[1] = "S" ->
                [division EXCEPT
                    !.category = parts[1],
                    !.subcategory = IF Len(parts) >= 2 THEN parts[2] ELSE @]
          [] line[1] = "E" -> [division EXCEPT !.description = rest]
          [] OTHER -> division

\* the while loop with a default case that goes on to the next line
RECURSIVE qifLoopSkipping(_, _, _, _)
qifLoopSkipping(lines, transaction, division, out) ==
    IF lines = <<>>
    THEN Returned(IF HasKeys(transaction) THEN Append(out, transaction) ELSE out)
    ELSE IF Trim(Head(lines)) = <<"^">>
    THEN qifLoopSkipping(Tail(lines), EmptyTransaction, division, Append(out, transaction))
    ELSE IF Trim(Head(lines)) = <<>> \/ Trim(Head(lines))[1] \notin DetailCodes \ {"$"}
    THEN qifLoopSkipping(Tail(lines), transaction, division, out)
    ELSE qifLoopSkipping(Tail(lines), WithDetail(transaction, Trim(Head(lines))),
                         DivisionAfter(division, Trim(Head(lines))), out)

\* the while loop of qifToJson over the lines left, with its three
\* accumulators: the current transaction, the current division, the output
RECURSIVE qifLoop(_, _, _, _)
qifLoop(lines, transaction, division, out) ==
    IF lines = <<>>
    THEN Returned(IF HasKeys(transaction) THEN Append(out, transaction) ELSE out)
    ELSE
        LET line == Trim(Head(lines))
        IN  IF line = <<"^">>
            THEN qifLoop(Tail(lines), EmptyTransaction, division, Append(out, transaction))
            ELSE IF line = <<>> \/ line[1] \notin DetailCodes
            THEN Threw("Unknown Detail Code")
            ELSE IF line[1] = "$"
            THEN qifLoop(Tail(lines),
                         [transaction EXCEPT !.division =
                             @ \o <<[division EXCEPT !.amount = ParseFloat(From(line, 1))]>>],
                         EmptyDivision, out)
            ELSE qifLoop(Tail(lines), WithDetail(transaction, line),
                         DivisionAfter(division, line), out)

\* qifToJson(input), the input given as its lines (input.split('\n'))
qifToJson(input) ==
    LET lines == SelectSeq(input, LAMBDA l : l # <<>>)
    IN  IF lines = <<>> \/ ~typeMatch(Trim(Head(lines)))
        THEN Threw("File does not appear to be a valid qif file")
        ELSE qifLoop(Tail(lines), EmptyTransaction, EmptyDivision, <<>>)

\* s.indexOf(c) + 1
FirstIndex(s, c) ==
    LET at == {i \in 1..Len(s) : s[i] = c}
    IN  IF at = {} THEN 0 ELSE CHOOSE i \in at : \A j \in at : i <= j

-----------------------------------------------------------------------------
(* The statement amount parser: parseOfxAmount *)

\* a trimmed text in parentheses becomes the text inside with a minus sign
unwrapParens(trimmed) ==
    IF trimmed # <<>> /\ Head(trimmed) = "(" /\ trimmed[Len(trimmed)] = ")"
    THEN <<"-">> \o SubSeq(trimmed, 2, Len(trimmed) - 1)
    ELSE trimmed

\* .replace(/[^\d.-]/g, '')
keepNumeric(s) == SelectSeq(s, LAMBDA c : c \in Digits \cup {".", "-"})

\* every '.' after the first one removed
keepFirstDot(kept) ==
    IF FirstIndex(kept, ".") = 0 THEN kept
    ELSE SubSeq(kept, 1, FirstIndex(kept, ".") - 1) \o <<".">>
             \o RemoveAllChar(From(kept, FirstIndex(kept, ".")), ".")

nanToNull(parsed) == IF parsed = NaN THEN NULL ELSE parsed

floatOfCleaned(cleaned) ==
    IF cleaned = <<>> \/ cleaned = <<"-">> \/ cleaned = <<".">> THEN NULL
    ELSE nanToNull(ParseFloat(cleaned))

parseOfxAmount(rawAmount) ==
    IF rawAmount = Absent \/ rawAmount = <<>> THEN NULL
    ELSE floatOfCleaned(keepFirstDot(keepNumeric(unwrapParens(Trim(rawAmount)))))

-----------------------------------------------------------------------------
(* The OFX reader: ofxToJson.  The body of an OFX file is held as what the  *)
(* XML parser makes of it: whether it parses as it stands, whether it       *)
(* parses after the SGML repair, and the message sets of the tree.          *)

\* a nested element where a text was expected: xml2js gives an object
ObjectValue == <<"[object Object]">>

\* Number(text) for a decimal text: 0 for the blank text, the value when the
\* whole trimmed text is an optionally signed decimal literal, NaN otherwise
NumberOf(s) ==
    LET t == Trim(s)
        signed == t # <<>> /\ t[1] \in {"-", "+"}
        b == IF signed THEN 2 ELSE 1
        na == DigitRun(t, b)
        hasDot == b + na <= Len(t) /\ t[b + na] = "."
        nb == IF hasDot THEN DigitRun(t, b + na + 1) ELSE 0
        consumed == (b - 1) + na + (IF hasDot THEN 1 ELSE 0) + nb
    IN  IF t = <<>> THEN <<0, 0>>
        ELSE IF na + nb > 0 /\ consumed = Len(t) THEN ParseFloat(t)
        ELSE NaN

\* new Date(year, monthIndex, day) brought into the calendar: the month
\* index into 0..11 with the year carried, then the day into the month
RECURSIVE RollDay(_, _, _)
RollDay(y, m, d) ==
    IF d > DaysInMonth(y, m)
    THEN RollDay(IF m = 12 THEN y + 1 ELSE y, IF m = 12 THEN 1 ELSE m + 1,
                 d - DaysInMonth(y, m))
    ELSE IF d < 1
    THEN LET py == IF m = 1 THEN y - 1 ELSE y
             pm == IF m = 1 THEN 12 ELSE m - 1
         IN  RollDay(py, pm, d + DaysInMonth(py, pm))
    ELSE <<y, m, d>>

NewDate(year, monthIndex, day) ==
    LET y0 == IF year \in 0..99 THEN 1900 + year ELSE year
        y1 == y0 + (monthIndex \div 12)
        m1 == (monthIndex % 12) + 1
    IN  RollDay(y1, m1, day)

InvalidDateText == <<"0", "N", "a", "N", "-", "N", "a", "N", "-", "N", "a", "N">>

\* dayFromDate(date) of a <<year, month, day>>
dayFromDate(date) ==
    PadStart(DigitsOf(date[1]), 4) \o <<"-">> \o PadStart(DigitsOf(date[2]), 2)
        \o <<"-">> \o PadStart(DigitsOf(date[3]), 2)

\* dayFromDate(new Date(year, month - 1, day)) of three Number() values
dayOfNumbers(year, month, day) ==
    IF NaN \in {year, month, day} THEN InvalidDateText
    ELSE dayFromDate(NewDate(year[1], month[1] - 1, day[1]))

\* the date of mapOfxTransaction from DTPOSTED
ofxDate(dtPosted) ==
    IF dtPosted = Absent \/ dtPosted = <<>> THEN <<>>
    ELSE dayOfNumbers(NumberOf(Slice(dtPosted, 0, 4)), NumberOf(Slice(dtPosted, 4, 6)),
                      NumberOf(Slice(dtPosted, 6, 8)))

\* String(value ?? '')
StringOrEmpty(value) == IF value = Absent THEN <<>> ELSE value

\* htmlToPlain: the five replacements in their order
htmlToPlain(value) ==
    LET lt == ReplaceAllSub(value, <<"&", "l", "t", ";">>, <<"<">>)
        gt == ReplaceAllSub(lt, <<"&", "g", "t", ";">>, <<">">>)
        apos == ReplaceAllSub(gt, <<"&", "#", "3", "9", ";">>, <<"'">>)
        quot == ReplaceAllSub(apos, <<"&", "q", "u", "o", "t", ";">>, <<"\"">>)
        amp == ReplaceAllSub(quot, <<"&", "a", "m", "p", ";">>, <<"&">>)
    IN  ReplaceAllSub(amp, <<"&", "#", "0", "3", "8", ";">>, <<"&">>)

\* mapOfxTransaction throws when DTPOSTED is not a text (no substring)
mapOfxThrows(transaction) == transaction.DTPOSTED = ObjectValue

mapOfxTransaction(transaction) ==
    [amount |-> StringOrEmpty(transaction.TRNAMT),
     type |-> StringOrEmpty(transaction.TRNTYPE),
     fitId |-> StringOrEmpty(transaction.FITID),
     date |-> ofxDate(transaction.DTPOSTED),
     name |-> htmlToPlain(StringOrEmpty(transaction.NAME)),
     memo |-> htmlToPlain(StringOrEmpty(transaction.MEMO))]

\* getStmtTransactions: the credit-card set if present, else the investment
\* set if present, else the bank set; each set is held already flattened
getStmtTransactions(parsed) ==
    IF ~parsed.hasOFX THEN <<>>
    ELSE IF parsed.cc.present THEN parsed.cc.stmts
    ELSE IF parsed.inv.present THEN parsed.inv.stmts
    ELSE IF parsed.bank.present THEN parsed.bank.stmts
    ELSE <<>>

\* the XML parser on a body: "strict" bodies parse as they stand, "sgml"
\* bodies only after sgmlToXml, the others never
ParsesStrict(body) == body.form = "strict"
ParsesRepaired(body) == body.form \in {"strict", "sgml"}

\* the mapping of the statement lines found
ofxMapAll(raw) ==
    IF \E i \in 1..Len(raw) : mapOfxThrows(raw[i])
    THEN Threw("dtPosted.substring is not a function")
    ELSE Returned([i \in 1..Len(raw) |-> mapOfxTransaction(raw[i])])

\* ofxToJson: strict parse, on failure the repaired parse, then the mapping
ofxToJson(body) ==
    IF ~ParsesStrict(body) /\ ~ParsesRepaired(body) THEN Threw("XML parse error")
    ELSE ofxMapAll(getStmtTransactions(body.tree))

-----------------------------------------------------------------------------
(* The CAMT reader: camtToJson.  The body of a CAMT file is held as the     *)
(* tree the XML parser makes of it: whether it parses, and its Ntry         *)
(* elements in document order.                                              *)

\* s.includes(sub)
Includes(s, sub) == \E i \in 1..(Len(s) - Len(sub) + 1) : SubSeq(s, i, i + Len(sub) - 1) = sub

Truthy(value) == value # Absent /\ value # <<>>

RECURSIVE JoinWith(_, _)
JoinWith(parts, sep) ==
    IF parts = <<>> THEN <<>>
    ELSE IF Len(parts) = 1 THEN parts[1]
    ELSE parts[1] \o sep \o JoinWith(Tail(parts), sep)

\* the details of an entry without NtryDtls/TxDtls
NoDetails ==
    [present |-> FALSE, Amt |-> Absent,
     RltdPties |-> [present |-> FALSE,
                    Cdtr |-> [present |-> FALSE, Nm |-> Absent],
                    Dbtr |-> [present |-> FALSE, Nm |-> Absent]],
     RmtInf |-> [present |-> FALSE, Ustrd |-> <<>>]]

\* getPayeeName throws when the party it looks into is missing
payeeThrows(details, isDebit) ==
    /\ details.present
    /\ details.RltdPties.present
    /\ ~(IF isDebit THEN details.RltdPties.Cdtr.present ELSE details.RltdPties.Dbtr.present)

getPayeeName(details, isDebit) ==
    IF ~details.present THEN Absent
    ELSE IF ~details.RltdPties.present THEN Absent
    ELSE IF isDebit THEN details.RltdPties.Cdtr.Nm ELSE details.RltdPties.Dbtr.Nm

getNotes(details) ==
    IF ~details.present THEN Absent
    ELSE IF ~details.RmtInf.present THEN Absent
    ELSE IF details.RmtInf.Ustrd = <<>> THEN Absent
    ELSE JoinWith(details.RmtInf.Ustrd, <<" ">>)

parseNumber(value) ==
    IF value = Absent THEN NULL ELSE nanToNull(NumberOf(value))

\* toDate throws on a date element that is a bare text ('DtTm' in text)
toDateThrows(dateRef) == dateRef.kind = "text"

toDate(dateRef) ==
    IF dateRef.kind = "DtTm" THEN Slice(dateRef.value, 0, 10)
    ELSE IF dateRef.kind = "Dt" THEN dateRef.value
    ELSE Absent

Negated(v) == <<-v[1], v[2]>>

signedAmount(amount, isDebit) ==
    IF amount = NULL THEN NULL ELSE IF isDebit THEN Negated(amount) ELSE amount

entryDate(entry) ==
    IF Truthy(toDate(entry.ValDt)) THEN toDate(entry.ValDt) ELSE toDate(entry.BookgDt)

entryDateThrows(entry) ==
    \/ toDateThrows(entry.ValDt)
    \/ ~Truthy(toDate(entry.ValDt)) /\ toDateThrows(entry.BookgDt)

isDebitEntry(entry) == entry.CdtDbtInd = <<"D", "B", "I", "T">>

\* the transactions of an array TxDtls with the amounts left unsigned
subTransactionsUnsigned(entry) ==
    [i \in 1..Len(entry.TxDtls.subs) |->
        [amount |-> parseNumber(entry.TxDtls.subs[i].Amt),
         date |-> entryDate(entry),
         payee_name |-> getPayeeName(entry.TxDtls.subs[i], isDebitEntry(entry)),
         imported_payee |-> getPayeeName(entry.TxDtls.subs[i], isDebitEntry(entry)),
         notes |-> getNotes(entry.TxDtls.subs[i]),
         imported_id |-> Absent]]

\* one transaction per element of an array TxDtls
subTransactions(entry) ==
    [i \in 1..Len(entry.TxDtls.subs) |->
        [amount |-> signedAmount(parseNumber(entry.TxDtls.subs[i].Amt), isDebitEntry(entry)),
         date |-> entryDate(entry),
         payee_name |-> getPayeeName(entry.TxDtls.subs[i], isDebitEntry(entry)),
         imported_payee |-> getPayeeName(entry.TxDtls.subs[i], isDebitEntry(entry)),
         notes |-> getNotes(entry.TxDtls.subs[i]),
         imported_id |-> Absent]]

\* payee with the additional entry info put before the related party
payeeOrInfoFirst(payee, entry) ==
    IF Truthy(entry.AddtlNtryInf) THEN entry.AddtlNtryInf ELSE payee

\* payee after "if (!payee && entry.AddtlNtryInf)"
payeeOr(payee, entry) ==
    IF ~Truthy(payee) /\ Truthy(entry.AddtlNtryInf) THEN entry.AddtlNtryInf ELSE payee

\* notes after "if (!notes && entry.AddtlNtryInf && entry.AddtlNtryInf !== payee)"
notesOrInfo(notes, payee, entry) ==
    IF ~Truthy(notes) /\ Truthy(entry.AddtlNtryInf) /\ entry.AddtlNtryInf # payee
    THEN entry.AddtlNtryInf ELSE notes

\* notes after "if (!payee && !notes && entry.NtryRef)"
notesOrRef(notes, payee, entry) ==
    IF ~Truthy(payee) /\ ~Truthy(notes) /\ Truthy(entry.NtryRef)
    THEN entry.NtryRef ELSE notes

\* notes left as they are whatever the payee
notesKeptInPayee(notes, payee) == notes

\* notes after "if (payee && notes && payee.includes(notes))"
notesUnlessInPayee(notes, payee) ==
    IF Truthy(payee) /\ Truthy(notes) /\ Includes(payee, notes) THEN Absent ELSE notes

entryNotes(entry, txDetails, payee) ==
    notesUnlessInPayee(
        notesOrRef(notesOrInfo(getNotes(txDetails), payee, entry), payee, entry),
        payee)

entryWith(entry, txDetails, payee) ==
    [amount |-> signedAmount(parseNumber(entry.Amt), isDebitEntry(entry)),
     date |-> entryDate(entry),
     payee_name |-> payee,
     imported_payee |-> payee,
     notes |-> entryNotes(entry, txDetails, payee),
     imported_id |-> IF Truthy(entry.AcctSvcrRef) THEN entry.AcctSvcrRef ELSE Absent]

entryOf(entry, txDetails) ==
    entryWith(entry, txDetails, payeeOr(getPayeeName(txDetails, isDebitEntry(entry)), entry))

\* the single transaction of an entry whose TxDtls is not an array
entryTransaction(entry) ==
    entryOf(entry, IF entry.TxDtls.shape = "single" THEN entry.TxDtls.subs[1] ELSE NoDetails)

entryThrows(entry) ==
    \/ entryDateThrows(entry)
    \/ IF entry.TxDtls.shape = "array"
       THEN \E i \in 1..Len(entry.TxDtls.subs) :
                payeeThrows(entry.TxDtls.subs[i], isDebitEntry(entry))
       ELSE entry.TxDtls.shape = "single"
                /\ payeeThrows(entry.TxDtls.subs[1], isDebitEntry(entry))

entryTransactions(entry) ==
    IF entry.TxDtls.shape = "array" THEN subTransactions(entry)
    ELSE <<entryTransaction(entry)>>

RECURSIVE camtLoop(_)
camtLoop(entries) ==
    IF entries = <<>> THEN <<>>
    ELSE entryTransactions(Head(entries)) \o camtLoop(Tail(entries))

\* the final filter letting every transaction through
camtKeptAll(item) == TRUE

\* item => item.date != null && item.amount != null
camtKept(item) == item.date # Absent /\ item.amount # NULL

camtToJson(body) ==
    IF ~ParsesStrict(body) THEN Threw("XML parse error")
    ELSE IF \E i \in 1..Len(body.entries) : entryThrows(body.entries[i])
    THEN Threw("TypeError")
    ELSE Returned(SelectSeq(camtLoop(body.entries), camtKept))

-----------------------------------------------------------------------------
(* The CSV reader: applyLineSkips, parseCsv, readCsvCell and                *)
(* detectCsvMappings.  A text is held as its lines (contents split at the   *)
(* line breaks); a row is its cells in key order, each a <<key, value>>,    *)
(* with a flag telling an array row from an object row.                     *)

Quote == "\""

\* applyLineSkips throws when the skips leave no line
skipThrows(lines, skipStartLines, skipEndLines) ==
    /\ ~(skipStartLines = 0 /\ skipEndLines = 0)
    /\ skipStartLines + skipEndLines >= Len(lines)

applyLineSkips(lines, skipStartLines, skipEndLines) ==
    IF skipStartLines = 0 /\ skipEndLines = 0 THEN lines
    ELSE SubSeq(lines, skipStartLines + 1, Len(lines) - skipEndLines)

\* the text without its leading blanks, a blank that is the delimiter kept
RECURSIVE SkipBlanks(_, _)
SkipBlanks(s, delimiter) ==
    IF s # <<>> /\ IsSpace(Head(s)) /\ Head(s) # delimiter
    THEN SkipBlanks(Tail(s), delimiter) ELSE s

\* the fields of one line: a field is quoted (from a quote at its start to
\* the next quote, then the delimiter or the end) or bare (no quote in it,
\* trimmed); ok is FALSE where the CSV library raises a quote error
RECURSIVE csvFields(_, _, _)
csvFields(s, delimiter, acc) ==
    LET t == SkipBlanks(s, delimiter)
    IN  IF t # <<>> /\ Head(t) = Quote
        THEN LET close == FirstIndex(Tail(t), Quote)
                 after == SkipBlanks(From(t, close + 1), delimiter)
             IN  IF close = 0 THEN [ok |-> FALSE, fields |-> acc]
                 ELSE IF after = <<>>
                 THEN [ok |-> TRUE, fields |-> Append(acc, SubSeq(t, 2, close))]
                 ELSE IF Head(after) = delimiter
                 THEN csvFields(Tail(after), delimiter, Append(acc, SubSeq(t, 2, close)))
                 ELSE [ok |-> FALSE, fields |-> acc]
        ELSE LET cut == FirstIndex(t, delimiter)
                 raw == IF cut = 0 THEN t ELSE SubSeq(t, 1, cut - 1)
             IN  IF \E i \in 1..Len(raw) : raw[i] = Quote
                 THEN [ok |-> FALSE, fields |-> acc]
                 ELSE IF cut = 0 THEN [ok |-> TRUE, fields |-> Append(acc, TrimEnd(raw))]
                 ELSE csvFields(From(t, cut), delimiter, Append(acc, TrimEnd(raw)))

\* a key that is an array index (a canonical decimal numeral): the keys
\* Object.keys lists first, in ascending order.  The numerals of the model
\* stay far below the largest array index, 2^32 - 2.
IsIndexKey(key) ==
    /\ key # <<>>
    /\ \A i \in 1..Len(key) : key[i] \in Digits
    /\ Len(key) = 1 \/ key[1] # "0"

\* how many cells come before a new key in the order of Object.keys: for an
\* index key the index keys below it, for any other key all the cells
CellsBefore(cells, key) ==
    IF IsIndexKey(key)
    THEN Cardinality({i \in 1..Len(cells) :
                         IsIndexKey(cells[i][1]) /\ IntOf(cells[i][1]) < IntOf(key)})
    ELSE Len(cells)

\* row[key] = value on an object row, the cells held in the order of
\* Object.keys: an existing key keeps its place, a new index key goes among
\* the index keys at the front, any other new key goes last
PutCell(cells, key, value) ==
    IF \E i \in 1..Len(cells) : cells[i][1] = key
    THEN [i \in 1..Len(cells) |-> IF cells[i][1] = key THEN <<key, value>> ELSE cells[i]]
    ELSE SubSeq(cells, 1, CellsBefore(cells, key)) \o <<<<key, value>>>>
             \o SubSeq(cells, CellsBefore(cells, key) + 1, Len(cells))

RECURSIVE objectCells(_, _, _)
objectCells(header, fields, cells) ==
    IF header = <<>> \/ fields = <<>> THEN cells
    ELSE objectCells(Tail(header), Tail(fields), PutCell(cells, Head(header), Head(fields)))

arrayRow(fields) ==
    [isArray |-> TRUE, cells |-> [i \in 1..Len(fields) |-> <<DigitsOf(i - 1), fields[i]>>]]

objectRow(header, fields) ==
    [isArray |-> FALSE, cells |-> objectCells(header, fields, <<>>)]

\* parseCsv: blank lines skipped, the first record naming the columns when
\* hasHeaderRow, short records leaving keys out and long ones cut
parseCsv(lines, hasHeaderRow, delimiter) ==
    LET kept == SelectSeq(lines, LAMBDA l : SkipBlanks(l, delimiter) # <<>>)
        records == [i \in 1..Len(kept) |-> csvFields(kept[i], delimiter, <<>>)]
    IN  IF \E i \in 1..Len(records) : ~records[i].ok THEN Threw("Invalid quote")
        ELSE IF ~hasHeaderRow
        THEN Returned([i \in 1..Len(records) |-> arrayRow(records[i].fields)])
        ELSE IF records = <<>> THEN Returned(<<>>)
        ELSE Returned([i \in 1..(Len(records) - 1) |->
                          objectRow(records[1].fields, records[i + 1].fields)])

normalizeFieldRef(ref) ==
    IF ref = Absent THEN Absent
    ELSE IF Trim(ref) = <<>> THEN Absent
    ELSE Trim(ref)

\* Number.isInteger(index)
IsInteger(index) == index # NaN /\ index[2] = 0

CellAt(row, index) ==
    IF index >= 0 /\ index < Len(row.cells) THEN row.cells[index + 1][2] ELSE Absent

KeyAt(row, index) ==
    IF index >= 0 /\ index < Len(row.cells) THEN row.cells[index + 1][1] ELSE <<>>

CellOf(row, key) ==
    LET at == {i \in 1..Len(row.cells) : row.cells[i][1] = key}
    IN  IF at = {} THEN Absent ELSE row.cells[CHOOSE i \in at : TRUE][2]

HasKey(row, key) == \E i \in 1..Len(row.cells) : row.cells[i][1] = key

\* the cell under keys[index], undefined when there is no such key or the
\* key is the empty text
cellByPosition(row, key) == IF key # <<>> THEN CellOf(row, key) ELSE Absent

\* the cell of a row for the trimmed reference and its Number(): by index
\* for an array row; for an object row by name, else by position
cellByRef(row, trimmed, index) ==
    IF row.isArray
    THEN IF IsInteger(index) THEN CellAt(row, index[1]) ELSE Absent
    ELSE IF HasKey(row, trimmed) THEN CellOf(row, trimmed)
    ELSE IF IsInteger(index) THEN cellByPosition(row, KeyAt(row, index[1]))
    ELSE Absent

cellByTrimmed(row, trimmed) == cellByRef(row, trimmed, NumberOf(trimmed))

readCsvCell(row, ref) ==
    IF ref = Absent THEN Absent ELSE cellByTrimmed(row, Trim(ref))

\* name.toLowerCase().includes(word)
NameHas(name, word) == Includes(ToLowerCase(name), word)

\* /^\d+[-/]\d+[-/]\d+$/.test(value)
LooksLikeDate(value) ==
    \E i, j \in 1..Len(value) :
        /\ 1 < i /\ i + 1 < j /\ j < Len(value)
        /\ value[i] \in {"-", "/"} /\ value[j] \in {"-", "/"}
        /\ \A k \in (1..Len(value)) \ {i, j} : value[k] \in Digits

\* /^-?[.,\d]+$/.test(value)
LooksLikeAmount(value) ==
    LET body == IF value # <<>> /\ Head(value) = "-" THEN Tail(value) ELSE value
    IN  body # <<>> /\ \A k \in 1..Len(body) : body[k] \in Digits \cup {".", ","}

\* keyFromEntries: the name of the first entry that matches, or null
keyFromEntries(entries, match(_, _)) ==
    LET at == {i \in 1..Len(entries) : match(entries[i][1], entries[i][2])}
    IN  IF at = {} THEN Absent
        ELSE entries[CHOOSE i \in at : \A j \in at : i <= j][1]

NoMappings ==
    [date |-> Absent, amount |-> Absent, payee |-> Absent, notes |-> Absent,
     category |-> Absent, outflow |-> Absent, inflow |-> Absent, inOut |-> Absent]

\* the eight searches of detectCsvMappings over the entries of the first row
mappingsOf(entries) ==
    [date |-> keyFromEntries(entries,
                LAMBDA name, value : NameHas(name, <<"d", "a", "t", "e">>)
                                        \/ LooksLikeDate(value)),
     amount |-> keyFromEntries(entries,
                LAMBDA name, value : NameHas(name, <<"a", "m", "o", "u", "n", "t">>)
                                        \/ LooksLikeAmount(value)),
     category |-> keyFromEntries(entries,
                LAMBDA name, value :
                    NameHas(name, <<"c", "a", "t", "e", "g", "o", "r", "y">>)),
     payee |-> keyFromEntries(entries,
                LAMBDA name, value : NameHas(name, <<"p", "a", "y", "e", "e">>)),
     notes |-> keyFromEntries(entries,
                LAMBDA name, value : NameHas(name, <<"n", "o", "t", "e">>)
                                        \/ NameHas(name, <<"m", "e", "m", "o">>)),
     outflow |-> keyFromEntries(entries,
                LAMBDA name, value :
                    NameHas(name, <<"o", "u", "t", "f", "l", "o", "w">>)
                        \/ NameHas(name, <<"d", "e", "b", "i", "t">>)),
     inflow |-> keyFromEntries(entries,
                LAMBDA name, value :
                    NameHas(name, <<"i", "n", "f", "l", "o", "w">>)
                        \/ NameHas(name, <<"c", "r", "e", "d", "i", "t">>)),
     inOut |-> keyFromEntries(entries,
                LAMBDA name, value : NameHas(name, <<"i", "n", "/", "o", "u", "t">>))]

\* objectKeys(first).map(key => [key, String(readCsvCell(first, key) ?? '')])
entriesOf(first) ==
    [i \in 1..Len(first.cells) |->
        <<first.cells[i][1], StringOrEmpty(readCsvCell(first, first.cells[i][1]))>>]

detectCsvMappings(transactions) ==
    IF transactions = <<>> THEN NoMappings ELSE mappingsOf(entriesOf(transactions[1]))

-----------------------------------------------------------------------------
(* Amount fields of a CSV row: parseAmount and parseAmountFields *)

Zero == <<0, 0>>

AbsNum(v) == <<Abs(v[1]), v[2]>>

Times(a, b) == Norm(a[1] * b[1], a[2] + b[2])

\* a || b on numbers: b when a is zero
OrElse(a, b) == IF a[1] = 0 THEN b ELSE a

\* parseAmount(value, n => n)
parseAmount(value) == IF value = Absent THEN NULL ELSE looselyParseAmount(value)

\* parsed || 0
orZero(parsed) == IF parsed = NULL THEN Zero ELSE parsed

\* the value record with the inflow cell read whatever the outflow is
valueOfCellsBothLegs(split, outflow, inflow, amount) ==
    IF split
    THEN [outflow |-> Negated(AbsNum(outflow)), inflow |-> AbsNum(inflow)]
    ELSE IF amount[1] >= 0 THEN [outflow |-> Zero, inflow |-> amount]
    ELSE [outflow |-> amount, inflow |-> Zero]

\* the value record from the three parsed cells, before the in/out column,
\* the flip and the multiplier
valueOfCells(split, outflow, inflow, amount) ==
    IF split
    THEN [outflow |-> Negated(AbsNum(outflow)),
          inflow |-> IF outflow[1] # 0 THEN Zero ELSE AbsNum(inflow)]
    ELSE IF amount[1] >= 0 THEN [outflow |-> Zero, inflow |-> amount]
    ELSE [outflow |-> amount, inflow |-> Zero]

amountFieldsValue(transaction, splitMode, inOutMode) ==
    valueOfCells(splitMode /\ ~inOutMode,
                 orZero(parseAmount(transaction.outflow)),
                 orZero(parseAmount(transaction.inflow)),
                 orZero(parseAmount(transaction.amount)))

\* the in/out step leaving the sign of the amount as it is
amountFieldsInOutKeepsSign(value, transaction, inOutMode, outValue) == value

amountFieldsInOut(value, transaction, inOutMode, outValue) ==
    IF ~inOutMode THEN value
    ELSE IF StringOrEmpty(transaction.inOut) = outValue
    THEN [outflow |-> Negated(AbsNum(OrElse(value.outflow, value.inflow))), inflow |-> Zero]
    ELSE [outflow |-> Zero, inflow |-> AbsNum(OrElse(value.outflow, value.inflow))]

\* the flip filling the inflow leg and leaving the outflow leg as it is
amountFieldsFlipOutflowKept(value, flipAmount) ==
    IF ~flipAmount THEN value
    ELSE [inflow |-> AbsNum(value.outflow), outflow |-> value.outflow]

\* the flip exchanging the legs without negating them
amountFieldsFlipSwapOnly(value, flipAmount) ==
    IF ~flipAmount THEN value
    ELSE [inflow |-> value.outflow, outflow |-> value.inflow]

amountFieldsFlip(value, flipAmount) ==
    IF ~flipAmount THEN value
    ELSE [inflow |-> AbsNum(value.outflow), outflow |-> Negated(AbsNum(value.inflow))]

\* parsed || 1
orOne(parsed) == IF parsed = NaN \/ parsed[1] = 0 THEN <<1, 0>> ELSE parsed

\* the multiplication and the returned record
amountFieldsResult(value, multiplier, splitMode) ==
    [amount |-> OrElse(Times(value.outflow, multiplier), Times(value.inflow, multiplier)),
     outflow |-> IF splitMode THEN Times(value.outflow, multiplier) ELSE NULL,
     inflow |-> IF splitMode THEN Times(value.inflow, multiplier) ELSE NULL]

\* the amount of parseAmountFields is value.outflow || value.inflow
parseAmountFields(transaction, splitMode, inOutMode, outValue, flipAmount, multiplierAmount) ==
    amountFieldsResult(
        amountFieldsFlip(
            amountFieldsInOut(amountFieldsValue(transaction, splitMode, inOutMode),
                              transaction, inOutMode, outValue),
            flipAmount),
        orOne(ParseFloat(multiplierAmount)),
        splitMode)

-----------------------------------------------------------------------------
(* The dispatcher: extension and parseFile.  A file on disk is readable or  *)
(* not, and holds a text (its lines) or an XML document (its body).         *)

\* filePath.match(/\.[^.]*$/) without the lowercasing
extensionCaseKept(filePath) ==
    LET dots == {i \in 1..Len(filePath) : filePath[i] = "."}
    IN  IF dots = {} THEN <<>>
        ELSE From(filePath, (CHOOSE i \in dots : \A j \in dots : j <= i) - 1)

extension(filePath) ==
    LET dots == {i \in 1..Len(filePath) : filePath[i] = "."}
    IN  IF dots = {} THEN <<>>
        ELSE ToLowerCase(From(filePath, (CHOOSE i \in dots : \A j \in dots : j <= i) - 1))

ExtCsv == <<".", "c", "s", "v">>
ExtTsv == <<".", "t", "s", "v">>
ExtQif == <<".", "q", "i", "f">>
ExtOfx == <<".", "o", "f", "x">>
ExtQfx == <<".", "q", "f", "x">>
ExtXml == <<".", "x", "m", "l">>

ParseError(message, internal) == [message |-> message, internal |-> internal]

\* the catch block of a branch, returning two errors
failedTwice(message, internal, fileType) ==
    [errors |-> <<ParseError(message, internal), ParseError(message, internal)>>,
     transactions |-> <<>>, fileType |-> fileType]

\* the catch block of a branch: one error, no transactions
failed(message, internal, fileType) ==
    [errors |-> <<ParseError(message, internal)>>, transactions |-> <<>>,
     fileType |-> fileType]

\* options.delimiter || (ext === '.tsv' ? '\t' : ',')
delimiterOf(options, ext) ==
    IF Truthy(options.delimiter) THEN options.delimiter[1]
    ELSE IF ext = ExtTsv THEN "\t" ELSE ","

csvResult(rows) ==
    IF rows.threw THEN failed("Failed parsing CSV", rows.message, "csv")
    ELSE [errors |-> <<>>, transactions |-> rows.transactions, fileType |-> "csv"]

parseFileCsv(ext, options, file) ==
    IF ~file.readable THEN failed("Failed parsing CSV", "ENOENT", "csv")
    ELSE IF skipThrows(file.lines, options.skipStartLines, options.skipEndLines)
    THEN failed("Failed parsing CSV", "Cannot skip lines", "csv")
    ELSE csvResult(parseCsv(applyLineSkips(file.lines, options.skipStartLines,
                                           options.skipEndLines),
                            options.hasHeaderRow, delimiterOf(options, ext)))

\* the QIF filter letting every record through
qifKeptAll(tx) == TRUE

\* tx => tx.date != null && tx.amount != null
qifKept(tx) == tx.date # Absent /\ tx.amount # NULL

qifMapped(tx, options) ==
    [amount |-> IF tx.amount # Absent THEN looselyParseAmount(tx.amount) ELSE NULL,
     date |-> tx.date,
     payee_name |-> tx.payee,
     imported_payee |-> tx.payee,
     notes |-> IF options.importNotes /\ Truthy(tx.memo) THEN tx.memo ELSE Absent,
     imported_id |-> Absent]

qifResult(parsed, options) ==
    IF parsed.threw
    THEN failed("Failed parsing: doesn't look like a valid QIF file.", parsed.message, "qif")
    ELSE [errors |-> <<>>,
          transactions |->
              SelectSeq([i \in 1..Len(parsed.transactions) |->
                            qifMapped(parsed.transactions[i], options)],
                        qifKept),
          fileType |-> "qif"]

parseFileQif(options, file) ==
    IF ~file.readable
    THEN failed("Failed parsing: doesn't look like a valid QIF file.", "ENOENT", "qif")
    ELSE qifResult(qifToJson(file.lines), options)

ofxPayee(tx, options) ==
    IF tx.name # <<>> THEN tx.name
    ELSE IF options.fallbackMissingPayeeToMemo THEN tx.memo ELSE Absent

\* the transaction returned by the map callback for a parsed amount
ofxMapped(tx, amount, options) ==
    [amount |-> orZero(amount),
     imported_id |-> IF tx.fitId # <<>> THEN tx.fitId ELSE Absent,
     date |-> tx.date,
     payee_name |-> ofxPayee(tx, options),
     imported_payee |-> ofxPayee(tx, options),
     notes |-> IF options.importNotes /\ tx.memo # <<>> THEN tx.memo ELSE Absent]

\* the errors pushed by the map callback, one for each null amount
ofxErrors(amounts) ==
    [i \in 1..Len(SelectSeq(amounts, LAMBDA amount : amount = NULL)) |->
        ParseError("Invalid amount format", "Failed to parse amount")]

ofxMapResult(transactions, amounts, options) ==
    [errors |-> ofxErrors(amounts),
     transactions |-> [i \in 1..Len(transactions) |->
                          ofxMapped(transactions[i], amounts[i], options)],
     fileType |-> "ofx"]

ofxResult(parsed, options) ==
    IF parsed.threw THEN failed("Failed importing OFX file", parsed.message, "ofx")
    ELSE ofxMapResult(parsed.transactions,
                      [i \in 1..Len(parsed.transactions) |->
                          parseOfxAmount(parsed.transactions[i].amount)],
                      options)

parseFileOfx(options, file) ==
    IF ~file.readable THEN failed("Failed importing OFX file", "ENOENT", "ofx")
    ELSE ofxResult(ofxToJson(file.xml), options)

camtResult(parsed, options) ==
    IF parsed.threw THEN failed("Failed importing CAMT file", parsed.message, "camt")
    ELSE [errors |-> <<>>,
          transactions |->
              [i \in 1..Len(parsed.transactions) |->
                  [parsed.transactions[i] EXCEPT
                      !.notes = IF options.importNotes THEN @ ELSE Absent]],
          fileType |-> "camt"]

parseFileCamt(options, file) ==
    IF ~file.readable THEN failed("Failed importing CAMT file", "ENOENT", "camt")
    ELSE camtResult(camtToJson(file.xml), options)

parseFile(filePath, options, file) ==
    LET ext == extension(filePath)
    IN  IF ext = ExtCsv \/ ext = ExtTsv THEN parseFileCsv(ext, options, file)
        ELSE IF ext = ExtQif THEN parseFileQif(options, file)
        ELSE IF ext = ExtOfx \/ ext = ExtQfx THEN parseFileOfx(options, file)
        ELSE IF ext = ExtXml THEN parseFileCamt(options, file)
        ELSE failed("Invalid file type", "", "unknown")

-----------------------------------------------------------------------------
(* Import normalization: normalizeCsvTransactions and                       *)
(* normalizeStructuredTransactions                                          *)

Falsy(value) == value = Absent \/ value = <<>>

\* a field order that is null
NoFormat == ""

\* parseDateFormat(input): the input if it is one of the field orders
parseDateFormat(input) ==
    IF \E i \in 1..Len(DateFormats) : DateFormats[i] = input THEN input ELSE NoFormat

RECURSIVE detectFrom(_, _)
detectFrom(sample, k) ==
    IF k > Len(DateFormats) THEN NoFormat
    ELSE IF parseDate(sample, DateFormats[k]) # NULL THEN DateFormats[k]
    ELSE detectFrom(sample, k + 1)

detectDateFormat(sample) == IF Falsy(sample) THEN NoFormat ELSE detectFrom(sample, 1)

\* the budget's categories by lowercased name
CategoryNames == {<<"f", "o", "o", "d">>}

CategoryIdOf(name) == <<"c", "-">> \o name

HexChars == Digits \cup {"a", "b", "c", "d", "e", "f", "A", "B", "C", "D", "E", "F", "-"}

IdLength == 20

mapCategoryId(categoryValue) ==
    IF categoryValue = Absent THEN Absent
    ELSE IF Trim(categoryValue) = <<>> THEN Absent
    ELSE IF Len(Trim(categoryValue)) >= IdLength
            /\ \A i \in 1..Len(Trim(categoryValue)) : Trim(categoryValue)[i] \in HexChars
    THEN Trim(categoryValue)
    ELSE IF ToLowerCase(Trim(categoryValue)) \in CategoryNames
    THEN CategoryIdOf(ToLowerCase(Trim(categoryValue)))
    ELSE Absent

\* ref ?? found, the reference normalized
refOr(ref, found) == IF ref # Absent THEN ref ELSE found

csvMappingsFromOptions(options, detected) ==
    [date |-> refOr(normalizeFieldRef(options.csvDateCol), detected.date),
     amount |-> refOr(normalizeFieldRef(options.csvAmountCol), detected.amount),
     payee |-> refOr(normalizeFieldRef(options.csvPayeeCol), detected.payee),
     notes |-> refOr(normalizeFieldRef(options.csvNotesCol), detected.notes),
     category |-> refOr(normalizeFieldRef(options.csvCategoryCol), detected.category),
     inflow |-> refOr(normalizeFieldRef(options.csvInflowCol), detected.inflow),
     outflow |-> refOr(normalizeFieldRef(options.csvOutflowCol), detected.outflow),
     inOut |-> refOr(normalizeFieldRef(options.csvInoutCol), detected.inOut)]

Normalized(transactions, errors) ==
    [threw |-> FALSE, message |-> "", transactions |-> transactions, errors |-> errors]

NormalizeThrew(message) ==
    [threw |-> TRUE, message |-> message, transactions |-> <<>>, errors |-> <<>>]

\* typeof payee === 'string' && payee.trim() ? payee.trim() : undefined
trimmedOrAbsent(payee) ==
    IF payee = Absent THEN Absent
    ELSE IF Trim(payee) = <<>> THEN Absent
    ELSE Trim(payee)

\* importNotes && typeof notes === 'string' && notes.trim() ? notes : null
notesOrAbsent(notes, importNotes) ==
    IF ~importNotes \/ notes = Absent THEN Absent
    ELSE IF Trim(notes) = <<>> THEN Absent
    ELSE notes

\* one pass of the row loop from what it read: the error pushed, or the
\* transaction pushed
csvPass(amount, dateString, payeeName, notes, category) ==
    IF amount = NULL
    THEN [error |-> "Transaction has no amount", tx |-> <<>>]
    ELSE IF Falsy(dateString)
    THEN [error |-> "Unable to parse date", tx |-> <<>>]
    ELSE [error |-> "",
          tx |-> <<[date |-> dateString,
                    amount |-> amount,
                    payee_name |-> payeeName,
                    imported_payee |-> payeeName,
                    notes |-> notes,
                    category |-> category,
                    imported_id |-> Absent]>>]

splitModeOf(mappings) == Truthy(mappings.inflow) \/ Truthy(mappings.outflow)

csvRow(row, mappings, dateFormat, options) ==
    csvPass(parseAmountFields(
                [amount |-> readCsvCell(row, mappings.amount),
                 outflow |-> readCsvCell(row, mappings.outflow),
                 inflow |-> readCsvCell(row, mappings.inflow),
                 inOut |-> readCsvCell(row, mappings.inOut)],
                splitModeOf(mappings), Truthy(mappings.inOut), options.csvOutValue,
                options.flipAmount, options.multiplier).amount,
            parseDate(readCsvCell(row, mappings.date),
                      IF dateFormat # NoFormat THEN dateFormat ELSE "mm dd yyyy"),
            trimmedOrAbsent(readCsvCell(row, mappings.payee)),
            notesOrAbsent(readCsvCell(row, mappings.notes), options.importNotes),
            mapCategoryId(readCsvCell(row, mappings.category)))

RECURSIVE Flatten(_)
Flatten(parts) == IF parts = <<>> THEN <<>> ELSE Head(parts) \o Flatten(Tail(parts))

rowResults(passes) ==
    Normalized(Flatten([i \in 1..Len(passes) |-> passes[i].tx]),
               Flatten([i \in 1..Len(passes) |->
                           IF passes[i].error = "" THEN <<>> ELSE <<passes[i].error>>]))

csvRows(rows, mappings, dateFormat, options) ==
    rowResults([i \in 1..Len(rows) |-> csvRow(rows[i], mappings, dateFormat, options)])

\* a || b on field orders
formatOr(given, detected) == IF given # NoFormat THEN given ELSE detected

\* String(readCsvCell(rows[0] ?? [], mappings.date) ?? '')
sampleDateOf(rows, mappings) ==
    IF rows = <<>> THEN <<>> ELSE StringOrEmpty(readCsvCell(rows[1], mappings.date))

\* normalizeCsvTransactions once the mappings are known
csvWithMappings(rows, options, mappings) ==
    IF mappings.date = Absent THEN NormalizeThrew("CSV date column not detected")
    ELSE IF ~(mappings.amount # Absent \/ splitModeOf(mappings))
    THEN NormalizeThrew("CSV amount column not detected")
    ELSE csvRows(rows, mappings,
                 formatOr(parseDateFormat(options.dateFormat),
                          detectDateFormat(sampleDateOf(rows, mappings))),
                 options)

normalizeCsvTransactions(rows, options) ==
    csvWithMappings(rows, options,
                    csvMappingsFromOptions(options, detectCsvMappings(rows)))

structuredPass(tx, normalizedDate, options) ==
    IF tx.amount = NULL
    THEN [error |-> "Transaction has no amount", tx |-> <<>>]
    ELSE IF Falsy(normalizedDate)
    THEN [error |-> "Unable to parse date", tx |-> <<>>]
    ELSE [error |-> "",
          tx |-> <<[date |-> normalizedDate,
                    amount |-> tx.amount,
                    payee_name |-> tx.payee_name,
                    imported_payee |-> tx.imported_payee,
                    notes |-> IF options.importNotes THEN tx.notes ELSE Absent,
                    category |-> Absent,
                    imported_id |-> tx.imported_id]>>]

structuredRow(fileType, tx, dateFormat, options) ==
    structuredPass(tx,
                   IF fileType = "qif" /\ dateFormat # NoFormat
                   THEN parseDate(StringOrEmpty(tx.date), dateFormat)
                   ELSE tx.date,
                   options)

structuredRows(fileType, rows, dateFormat, options) ==
    rowResults([i \in 1..Len(rows) |-> structuredRow(fileType, rows[i], dateFormat, options)])

\* rows[0]?.date ? String(rows[0].date) : ''
sampleOf(rows) ==
    IF rows = <<>> THEN <<>> ELSE IF Falsy(rows[1].date) THEN <<>> ELSE rows[1].date

normalizeStructuredTransactions(fileType, rows, options) ==
    structuredRows(fileType, rows,
                   formatOr(parseDateFormat(options.dateFormat),
                            IF fileType = "qif" THEN detectDateFormat(sampleOf(rows))
                            ELSE NoFormat),
                   options)

-----------------------------------------------------------------------------
(* The state of an import run, and its value while no import runs *)

\* the options of a run with no flag given
DefaultOptions ==
    [csvHeader |-> TRUE, csvDelimiter |-> Absent, fallbackPayeeToMemo |-> FALSE,
     csvSkipStart |-> 0, csvSkipEnd |-> 0, importNotes |-> TRUE,
     csvDateCol |-> Absent, csvAmountCol |-> Absent, csvPayeeCol |-> Absent,
     csvNotesCol |-> Absent, csvCategoryCol |-> Absent, csvInflowCol |-> Absent,
     csvOutflowCol |-> Absent, csvInoutCol |-> Absent, csvOutValue |-> <<>>,
     multiplier |-> <<"1">>, flipAmount |-> FALSE, dateFormat |-> NoFormat,
     reconcile |-> TRUE, dryRun |-> FALSE, clear |-> TRUE]

NoResult == [errors |-> <<>>, transactions |-> <<>>, fileType |-> ""]

NoNormalized == Normalized(<<>>, <<>>)

NoFile == [readable |-> FALSE, lines |-> <<>>,
           xml |-> [form |-> "broken",
                    tree |-> [hasOFX |-> FALSE,
                              cc |-> [present |-> FALSE, stmts |-> <<>>],
                              inv |-> [present |-> FALSE, stmts |-> <<>>],
                              bank |-> [present |-> FALSE, stmts |-> <<>>]],
                    entries |-> <<>>]]

importVars == <<importPath, disk, importOptions, cmd, parseResult, normalizedResult,
                ledger, insertCalls, exitCode>>

ImportIdle ==
    /\ importPath = <<>>
    /\ disk = NoFile
    /\ importOptions = DefaultOptions
    /\ cmd = "idle"
    /\ parseResult = NoResult
    /\ normalizedResult = NoNormalized
    /\ ledger = <<>>
    /\ insertCalls = 0
    /\ exitCode = 0

\* no call of a function of the CSV import is under way
NoCall == [fn |-> "none"]
NotReturned == [done |-> FALSE]

callVars == <<call, ret>>

CallIdle ==
    /\ call = NoCall
    /\ ret = NotReturned

-----------------------------------------------------------------------------
(* SpecAmount: the amount normalizer applied to a text, then to the string  *)
(* of its own result                                                        *)

\* the characters the texts are drawn from: digits (a zero among them),
\* both separators, the minus sign and a character that is none of these
AmtChars == {"0", "1", "2", ".", ",", "-", "a"}

\* the longest enumerated text
MaxLen == 5

\* the amounts the specification names, and texts longer than MaxLen
ExtraTexts ==
    { <<"1", ",", "2", "3", "4", ".", "5", "6">>,
      <<"1", ".", "2", "3", "4", ",", "5", "6">>,
      <<"$", "1", ",", "2", "3", "4", ".", "5", "6">>,
      <<"(", "4", "5", ".", "9", "9", ")">>,
      <<"(", "1", "2", ".", "5", "0", ")">>,
      <<UMinus, "5">>,
      <<"(", UMinus, "5", ")">>,
      <<"(", "1", ")", "2", ")">>,
      <<" ", "1", ".", "5", " ">>,
      <<"a", "b", "c">>,
      <<"1", "2", ".", "5", "0", " ", "E", "U", "R">>,
      <<".", "0", "0", "0", "0", "0", "0", "1">>,
      <<"0", ".", "0", "0", "0", "0", "0", "1", "2">>,
      <<".", "0", "0", "0", "0", "0", "0", "0", "0", "0", "1">> }

AmountTexts == (UNION {[1..n -> AmtChars] : n \in 0..MaxLen}) \cup ExtraTexts

AmountIdle == [first |-> NULL, str |-> <<>>, second |-> NULL]

DateIdle ==
    /\ din = [y |-> 0, m |-> 0, d |-> 0, order |-> "", sep |-> <<>>]
    /\ dtext = <<>>
    /\ dout = <<>>
    /\ dpc = "idle"

dateVars == <<din, dtext, dout, dpc>>
amountVars == <<text, aout, apc>>

InitAmount ==
    /\ text \in AmountTexts
    /\ aout = AmountIdle
    /\ apc = "start"
    /\ DateIdle
    /\ ImportIdle
    /\ CallIdle

\* x -> looselyParseAmount(x)
AmountParse ==
    /\ apc = "start"
    /\ aout' = [aout EXCEPT !.first = looselyParseAmount(text)]
    /\ apc' = "parsed"
    /\ UNCHANGED <<text, dateVars, importVars, callVars>>

\* v -> looselyParseAmount(String(v))
AmountReparse ==
    /\ apc = "parsed"
    /\ LET str == NumberToString(aout.first)
       IN  aout' = [aout EXCEPT !.str = str, !.second = looselyParseAmount(str)]
    /\ apc' = "done"
    /\ UNCHANGED <<text, dateVars, importVars, callVars>>

NextAmount == AmountParse \/ AmountReparse

SpecAmount == InitAmount /\ [][NextAmount]_vars

-----------------------------------------------------------------------------
(* SpecDate: a calendar date rendered in the shape of a field order and    *)
(* handed to parseDate with that order                                     *)

AmountIdleVars ==
    /\ text = <<>>
    /\ aout = AmountIdle
    /\ apc = "idle"

\* years before 2000, in 2000-2099 and after; leap years, the century years
\* 2000 (leap) and 2100 (not), and a year of three digits
DateYears == {999, 1999, 2000, 2024, 2099, 2100}

DateDays == {1, 9, 10, 28, 29, 30, 31}

DateSeparators == {<<"/">>, <<"-">>, <<".">>, <<" ">>, <<>>}

DateInputs ==
    {r \in [y : DateYears, m : 1..12, d : DateDays,
            order : {DateFormats[i] : i \in 1..Len(DateFormats)},
            sep : DateSeparators] :
        r.d <= DaysInMonth(r.y, r.m)}

\* the canonical YYYY-MM-DD string of a date
IsoDate(y, m, d) ==
    PadStart(DigitsOf(y), 4) \o <<"-">> \o PadStart(DigitsOf(m), 2)
        \o <<"-">> \o PadStart(DigitsOf(d), 2)

\* The date in the textual shape of a field order: the components in that
\* order, zero-padded, the year with four digits or, for the yy orders, its
\* last two, joined by the separator.
RenderDate(r) ==
    LET yyyy == PadStart(DigitsOf(r.y), 4)
        yy == SubSeq(yyyy, 3, 4)
        mm == PadStart(DigitsOf(r.m), 2)
        dd == PadStart(DigitsOf(r.d), 2)
    IN  CASE r.order = "yyyy mm dd" -> yyyy \o r.sep \o mm \o r.sep \o dd
          [] r.order = "yy mm dd" -> yy \o r.sep \o mm \o r.sep \o dd
          [] r.order = "mm dd yyyy" -> mm \o r.sep \o dd \o r.sep \o yyyy
          [] r.order = "mm dd yy" -> mm \o r.sep \o dd \o r.sep \o yy
          [] r.order = "dd mm yyyy" -> dd \o r.sep \o mm \o r.sep \o yyyy
          [] r.order = "dd mm yy" -> dd \o r.sep \o mm \o r.sep \o yy

InitDate ==
    /\ din \in DateInputs
    /\ dtext = <<>>
    /\ dout = <<>>
    /\ dpc = "start"
    /\ AmountIdleVars
    /\ ImportIdle
    /\ CallIdle

DateRender ==
    /\ dpc = "start"
    /\ dtext' = RenderDate(din)
    /\ dpc' = "rendered"
    /\ UNCHANGED <<din, dout, amountVars, importVars, callVars>>

DateParse ==
    /\ dpc = "rendered"
    /\ dout' = parseDate(dtext, din.order)
    /\ dpc' = "done"
    /\ UNCHANGED <<din, dtext, amountVars, importVars, callVars>>

NextDate == DateRender \/ DateParse

SpecDate == InitDate /\ [][NextDate]_vars

-----------------------------------------------------------------------------
(* The import command: importTransactionsCommand run under commandAction,   *)
(* one action per stretch of code between two awaits.                       *)

\* the options parseFile is called with
parseOptions(options) ==
    [hasHeaderRow |-> options.csvHeader,
     delimiter |-> options.csvDelimiter,
     fallbackMissingPayeeToMemo |-> options.fallbackPayeeToMemo,
     skipStartLines |-> options.csvSkipStart,
     skipEndLines |-> options.csvSkipEnd,
     importNotes |-> options.importNotes]

\* an error list that is never seen as non-empty
hasErrorsNever(errors) == FALSE

\* errors.length > 0
hasErrors(errors) == Len(errors) > 0

\* parseFile awaits its reader for these extensions
AwaitsReader(filePath) == extension(filePath) \in {ExtOfx, ExtQfx, ExtXml}

normalize(result, options) ==
    IF result.fileType = "csv" THEN normalizeCsvTransactions(result.transactions, options)
    ELSE normalizeStructuredTransactions(result.fileType, result.transactions, options)

\* the rows handed to the ledger
importPayload(transactions, options) ==
    [i \in 1..Len(transactions) |->
        [date |-> transactions[i].date,
         amount |-> transactions[i].amount,
         payee_name |-> transactions[i].payee_name,
         imported_payee |-> transactions[i].imported_payee,
         notes |-> transactions[i].notes,
         imported_id |-> IF Truthy(transactions[i].imported_id)
                         THEN transactions[i].imported_id ELSE Absent,
         category |-> IF Truthy(transactions[i].category)
                      THEN transactions[i].category ELSE Absent,
         cleared |-> options.clear]]

\* the category ids validateCategoryIds looks up
expectedCategoryIds(transactions) ==
    {transactions[i].category : i \in 1..Len(transactions)} \ {Absent, <<>>}

\* withBudget, resolveAccountId and api.getCategories: they settle or throw
OpenBudget ==
    /\ cmd = "start"
    /\ \E settled \in BOOLEAN :
           IF settled THEN cmd' = "open" /\ exitCode' = exitCode
           ELSE cmd' = "done" /\ exitCode' = 1
    /\ UNCHANGED <<importPath, disk, importOptions, parseResult, normalizedResult,
                   ledger, insertCalls, amountVars, dateVars, callVars>>

\* parseFile up to the await of the XML reader, the file read
ParseFileAwait ==
    /\ cmd = "open"
    /\ AwaitsReader(importPath)
    /\ disk.readable
    /\ cmd' = "reader"
    /\ UNCHANGED <<importPath, disk, importOptions, parseResult, normalizedResult,
                   ledger, insertCalls, exitCode, amountVars, dateVars, callVars>>

\* parseFile returns: at once for the branches that await nothing and for
\* a file that cannot be read, else when the XML reader has settled
ParseFileReturns ==
    /\ IF cmd = "open" THEN ~(AwaitsReader(importPath) /\ disk.readable)
       ELSE cmd = "reader"
    /\ parseResult' = parseFile(importPath, parseOptions(importOptions), disk)
    /\ cmd' = "parsed"
    /\ UNCHANGED <<importPath, disk, importOptions, normalizedResult, ledger,
                   insertCalls, exitCode, amountVars, dateVars, callVars>>

\* from the result of parseFile to the call of validateCategoryIds: the
\* check of the parse errors, the normalization (which may throw) and the
\* check of its errors
Normalize ==
    /\ cmd = "parsed"
    /\ IF hasErrors(parseResult.errors)
       THEN /\ exitCode' = 1
            /\ cmd' = "done"
            /\ normalizedResult' = normalizedResult
       ELSE /\ normalizedResult' = normalize(parseResult, importOptions)
            /\ IF normalizedResult'.threw \/ hasErrors(normalizedResult'.errors)
               THEN exitCode' = 1 /\ cmd' = "done"
               ELSE exitCode' = exitCode /\ cmd' = "validate"
    /\ UNCHANGED <<importPath, disk, importOptions, parseResult, ledger, insertCalls,
                   amountVars, dateVars, callVars>>

\* validateCategoryIds settles or throws (it asks the budget only when there
\* is an id to look up), then the dry-run check
Validate ==
    /\ cmd = "validate"
    /\ \E settled \in BOOLEAN :
           /\ expectedCategoryIds(normalizedResult.transactions) = {} => settled
           /\ IF ~settled
                 \/ \E id \in expectedCategoryIds(normalizedResult.transactions) :
                        id \notin {CategoryIdOf(name) : name \in CategoryNames}
                 \/ (~importOptions.reconcile /\ importOptions.dryRun)
              THEN exitCode' = 1 /\ cmd' = "done"
              ELSE exitCode' = exitCode /\ cmd' = "insert"
    /\ UNCHANGED <<importPath, disk, importOptions, parseResult, normalizedResult,
                   ledger, insertCalls, amountVars, dateVars, callVars>>

\* api.addTransactions (reconcile off) or api.importTransactions (reconcile
\* on, possibly as a dry run): the call settles, reports errors or throws
Insert ==
    /\ cmd = "insert"
    /\ insertCalls' = insertCalls + 1
    /\ \E outcome \in {"settled", "errors", "threw"} :
           /\ outcome = "errors" => importOptions.reconcile
           /\ ledger' = IF outcome = "threw"
                           \/ (importOptions.reconcile /\ importOptions.dryRun)
                        THEN ledger
                        ELSE ledger \o importPayload(normalizedResult.transactions,
                                                     importOptions)
           /\ exitCode' = IF outcome = "settled" THEN exitCode ELSE 1
    /\ cmd' = "done"
    /\ UNCHANGED <<importPath, disk, importOptions, parseResult, normalizedResult,
                   amountVars, dateVars, callVars>>

-----------------------------------------------------------------------------
(* Spec: one run of the import command on one file.  The files are built   *)
(* from a few kinds of record, statement line, entry and row, good and     *)
(* malformed, in every order up to a bound.                                *)

\* every sequence of at most n elements of the set
SeqsUpTo(set, n) == UNION {[1..k -> set] : k \in 0..n}

PathStems == { <<"a">>, <<"b", ".", "o", "f", "x">> }
PathTails ==
    { <<".", "c", "s", "v">>,
      <<".", "C", "S", "V">>,
      <<".", "t", "s", "v">>,
      <<".", "T", "s", "v">>,
      <<".", "q", "i", "f">>,
      <<".", "Q", "I", "F">>,
      <<".", "o", "f", "x">>,
      <<".", "O", "f", "x">>,
      <<".", "q", "f", "x">>,
      <<".", "x", "m", "l">>,
      <<".", "X", "m", "L">>,
      <<".", "t", "x", "t">>,
      <<".", "j", "s", "o", "n">>,
      <<".", "c", "s", "v", ".", "b", "a", "k">>,
      <<".", "q", "i", "f", ".">>,
      <<>>,
      <<"c", "s", "v">>,
      <<".", "d", "/", "c", "s", "v">>,
      <<".", "o", "f", "x", " ">>,
      <<".", "x", "m", "l", "x">> }
Paths == {stem \o tail : stem \in PathStems, tail \in PathTails}

NotXml == NoFile.xml

TextFile(lines) == [readable |-> TRUE, lines |-> lines, xml |-> NotXml]

Unreadable == NoFile

\* ---- QIF files: the header, then records each closed by '^', the last
\* one closed or not
MaxRecords == 3

QifHeader == <<"!", "T", "y", "p", "e", ":", "B", "a", "n", "k">>
QifGood1 == <<<<"D", "0", "7", "/", "1", "5", "/", "2", "0", "2", "5">>, <<"T", "1", ".", "5", "0">>, <<"P", "x">>>>
QifGood2 == <<<<"D", "0", "7", "/", "1", "6", "/", "2", "0", "2", "5">>, <<"T", "-", "2", ",", "5", "0">>, <<"M", "m">>>>
QifSplit == <<<<"D", "0", "7", "/", "1", "7", "/", "2", "0", "2", "5">>, <<"T", "(", "3", ")">>, <<"S", "a", ":", "b">>, <<"$", "3">>>>
QifNoAmount == <<<<"D", "0", "7", "/", "1", "5", "/", "2", "0", "2", "5">>, <<"P", "y">>>>
QifNoDate == <<<<"T", "1", ".", "5", "0">>>>
QifBadAmount == <<<<"D", "0", "7", "/", "1", "5", "/", "2", "0", "2", "5">>, <<"T", "a", "b", "c">>>>
QifAmountTwice == <<<<" ", "D", "0", "7", "/", "1", "8", "/", "2", "0", "2", "5", " ">>, <<"T", "a", "b", "c">>, <<"T", "4">>>>
QifEmpty == <<>>
QifRecordKinds ==
    {QifGood1, QifGood2, QifSplit, QifNoAmount, QifNoDate, QifBadAmount, QifAmountTwice, QifEmpty}

Caret == <<"^">>

RECURSIVE QifBody(_, _)
QifBody(records, closed) ==
    IF records = <<>> THEN <<>>
    ELSE IF Len(records) = 1 /\ ~closed THEN Head(records)
    ELSE Head(records) \o <<Caret>> \o QifBody(Tail(records), closed)

QifFiles ==
    {TextFile(<<QifHeader>> \o QifBody(records, closed)) :
        records \in SeqsUpTo(QifRecordKinds, MaxRecords), closed \in BOOLEAN}

\* QIF texts the reader rejects, and texts with blank lines
QifOddFiles ==
    { TextFile(<<<<"D", "0", "7", "/", "1", "5", "/", "2", "0", "2", "5">>, <<"T", "1", ".", "5", "0">>, <<"^">>>>),
      TextFile(<<<<"!", "t", "y", "p", "e", ":", "B", "a", "n", "k">>, <<"D", "0", "7", "/", "1", "5", "/", "2", "0", "2", "5">>, <<"T", "1", ".", "5", "0">>, <<"^">>>>),
      TextFile(<<<<"!", "T", "y", "p", "e", ":", "B", "a", "n", "k">>, <<"X", "1">>, <<"^">>>>),
      TextFile(<<<<"!", "T", "y", "p", "e", ":", "B", "a", "n", "k">>, <<"D", "0", "7", "/", "1", "5", "/", "2", "0", "2", "5">>, <<" ">>, <<"T", "1", ".", "5", "0">>, <<"^">>>>),
      TextFile(<<<<>>, <<"!", "T", "y", "p", "e", ":", "B", "a", "n", "k", "\r">>, <<>>, <<"D", "0", "7", "/", "1", "5", "/", "2", "0", "2", "5", "\r">>, <<"T", "1", ".", "5", "0", "\r">>, <<"^", "\r">>, <<>>>>),
      TextFile(<<<<"!", "T", "y", "p", "e", ":", "B", "a", "n", "k", "$">>, <<"D", "0", "7", "/", "1", "5", "/", "2", "0", "2", "5">>, <<"T", "1", ".", "5", "0">>, <<"^">>>>),
      TextFile(<<<<"!", "T", "y", "p", "e", ":", "B", "a", "n", "k">>, <<"D", "0", "7", "/", "1", "5", "/", "2", "0", "2", "5">>, <<"T", "1", ".", "5", "0">>, <<"P", "x">>, <<"^">>, <<"S", "a", ":", "b">>, <<"E", "x">>>>),
      TextFile(<<<<"!", "T", "y", "p", "e", ":", "B", "a", "n", "k">>, <<"D", "0", "7", "/", "1", "5", "/", "2", "0", "2", "5">>, <<"T", "1", ".", "5", "0">>, <<"P", "x">>, <<"^">>, <<"$", "3">>>>),
      TextFile(<<<<"!", "T", "y", "p", "e", ":", "B", "a", "n", "k">>, <<"D", "0", "7", "/", "1", "5", "/", "2", "0", "2", "5">>, <<"T", "1", ".", "5", "0">>, <<"P", "x">>, <<"^">>, <<"D">>>>),
      TextFile(<<<<"!", "T", "y", "p", "e", ":", "B", "a", "n", "k">>, <<"D", "0", "7", "/", "1", "5", "/", "2", "0", "2", "5">>, <<"T", "1", ".", "5", "0">>, <<"P", "x">>, <<"^">>, <<"D", "0", "7", "/", "1", "6", "/", "2", "0", "2", "5">>, <<"T", "-", "2", ",", "5", "0">>, <<"M", "m">>, <<"^">>, <<"P", "y">>>>),
      TextFile(<<<<"!", "T", "y", "p", "e", ":", "B", "a", "n", "k">>, <<"D", "0", "7", "/", "1", "5", "/", "2", "0", "2", "5">>, <<"T", "1", ".", "5", "0">>, <<"P", "x">>, <<"^">>, <<"Z", "1", "2", "3", "4">>, <<"^">>, <<"D", "0", "7", "/", "1", "6", "/", "2", "0", "2", "5">>, <<"T", "-", "2", ",", "5", "0">>, <<"M", "m">>, <<"^">>>>),
      TextFile(<<<<"!", "T", "y", "p", "e", ":", "B", "a", "n", "k">>, <<"D", "0", "7", "/", "1", "5", "/", "2", "0", "2", "5">>, <<"T", "1", ".", "5", "0">>, <<"P", "x">>, <<"^">>, <<"^", " ", "x">>>>),
      TextFile(<<<<"x", "!", "T", "y", "p", "e", ":", "B", "a", "n", "k">>, <<"D", "0", "7", "/", "1", "5", "/", "2", "0", "2", "5">>, <<"T", "1", ".", "5", "0">>, <<"P", "x">>, <<"^">>>>),
      TextFile(<<<<" ", " ", "!", "T", "y", "p", "e", ":">>, <<"D", "0", "7", "/", "1", "5", "/", "2", "0", "2", "5">>, <<"T", "1", ".", "5", "0">>, <<"P", "x">>, <<"^">>>>),
      TextFile(<<<<" ">>, <<"!", "T", "y", "p", "e", ":", "B", "a", "n", "k">>, <<"D", "0", "7", "/", "1", "5", "/", "2", "0", "2", "5">>, <<"T", "1", ".", "5", "0">>, <<"P", "x">>, <<"^">>>>),
      TextFile(<<<<>>>>) }

\* ---- OFX files: statement lines in the bank message set, parsing as XML
\* or only after the SGML repair
MaxStmts == 3

StmtGood1 ==
    [TRNAMT |-> <<"1", ".", "5", "0">>, TRNTYPE |-> <<"D", "E", "B", "I", "T">>, FITID |-> <<"f", "1">>, DTPOSTED |-> <<"2", "0", "2", "5", "0", "7", "1", "5">>,
     NAME |-> <<"x">>, MEMO |-> <<"m">>]
StmtGood2 ==
    [TRNAMT |-> <<"-", "2">>, TRNTYPE |-> <<"D", "E", "B", "I", "T">>, FITID |-> Absent, DTPOSTED |-> <<"2", "0", "2", "5", "0", "7", "1", "6", "1", "2", "0", "0", "0", "0">>,
     NAME |-> Absent, MEMO |-> <<"n">>]
StmtParen ==
    [TRNAMT |-> <<"(", "3", ".", "2", ".", "1", ")">>, TRNTYPE |-> <<"D", "E", "B", "I", "T">>, FITID |-> Absent, DTPOSTED |-> <<"2", "0", "2", "5", "0", "7", "1", "7">>,
     NAME |-> <<"a", "&", "a", "m", "p", ";", "b">>, MEMO |-> <<>>]
StmtBadAmount ==
    [TRNAMT |-> <<"a", "b", "c">>, TRNTYPE |-> <<"D", "E", "B", "I", "T">>, FITID |-> <<"f", "2">>, DTPOSTED |-> <<"2", "0", "2", "5", "0", "7", "1", "5">>,
     NAME |-> <<"x">>, MEMO |-> <<"m">>]
StmtNoAmount ==
    [TRNAMT |-> Absent, TRNTYPE |-> <<"D", "E", "B", "I", "T">>, FITID |-> <<"f", "3">>, DTPOSTED |-> <<"2", "0", "2", "5", "0", "7", "1", "5">>,
     NAME |-> <<"x">>, MEMO |-> <<"m">>]
StmtBadDate ==
    [TRNAMT |-> <<"5">>, TRNTYPE |-> <<"D", "E", "B", "I", "T">>, FITID |-> <<"f", "4">>, DTPOSTED |-> <<"2", "0", "2", "5", "a", "b", "0", "1">>,
     NAME |-> <<"x">>, MEMO |-> <<"m">>]
StmtNoDate ==
    [TRNAMT |-> <<"6">>, TRNTYPE |-> <<"D", "E", "B", "I", "T">>, FITID |-> <<"f", "5">>, DTPOSTED |-> Absent,
     NAME |-> <<"x">>, MEMO |-> <<"m">>]
StmtNestedDate ==
    [TRNAMT |-> <<"7">>, TRNTYPE |-> <<"D", "E", "B", "I", "T">>, FITID |-> <<"f", "6">>, DTPOSTED |-> ObjectValue,
     NAME |-> <<"x">>, MEMO |-> <<"m">>]
StmtKinds ==
    {StmtGood1, StmtGood2, StmtParen, StmtBadAmount, StmtNoAmount, StmtBadDate, StmtNoDate, StmtNestedDate}

NoSet == [present |-> FALSE, stmts |-> <<>>]

XmlFile(form, tree, entries) ==
    [readable |-> TRUE, lines |-> <<>>,
     xml |-> [form |-> form, tree |-> tree, entries |-> entries]]

BankTree(stmts) ==
    [hasOFX |-> TRUE, cc |-> NoSet, inv |-> NoSet,
     bank |-> [present |-> TRUE, stmts |-> stmts]]

NoTree == NoFile.xml.tree

OfxFiles ==
    {XmlFile("strict", BankTree(stmts), <<>>) : stmts \in SeqsUpTo(StmtKinds, MaxStmts)}

\* OFX bodies in SGML, broken bodies, and the other message sets
OfxOddFiles ==
    { XmlFile("sgml", BankTree(<<StmtGood1, StmtBadAmount>>), <<>>),
      XmlFile("sgml", BankTree(<<StmtGood2>>), <<>>),
      XmlFile("broken", BankTree(<<StmtGood1>>), <<>>),
      XmlFile("strict", [hasOFX |-> FALSE, cc |-> NoSet, inv |-> NoSet, bank |-> NoSet],
              <<>>),
      XmlFile("strict", [hasOFX |-> TRUE,
                         cc |-> [present |-> TRUE, stmts |-> <<StmtGood2>>],
                         inv |-> [present |-> TRUE, stmts |-> <<StmtGood1>>],
                         bank |-> [present |-> TRUE, stmts |-> <<StmtParen>>]], <<>>),
      XmlFile("strict", [hasOFX |-> TRUE, cc |-> NoSet,
                         inv |-> [present |-> TRUE, stmts |-> <<StmtGood1>>],
                         bank |-> [present |-> TRUE, stmts |-> <<StmtParen>>]], <<>>),
      XmlFile("strict", [hasOFX |-> TRUE,
                         cc |-> [present |-> TRUE, stmts |-> <<>>],
                         inv |-> NoSet,
                         bank |-> [present |-> TRUE, stmts |-> <<StmtGood1>>]], <<>>) }

\* ---- CAMT files: Ntry elements in document order
MaxEntries == 2

EntryCredit ==
    [AcctSvcrRef |-> <<"r", "1">>, Amt |-> <<"1", "2", ".", "5", "0">>, CdtDbtInd |-> <<"C", "R", "D", "T">>,
     ValDt |-> [kind |-> "Dt", value |-> <<"2", "0", "2", "5", "-", "0", "7", "-", "1", "5">>], BookgDt |-> [kind |-> "none", value |-> <<>>],
     TxDtls |-> [shape |-> "none", subs |-> <<>>],
     AddtlNtryInf |-> <<"i", "n", "f", "o">>, NtryRef |-> Absent]
EntryDebit ==
    [AcctSvcrRef |-> Absent, Amt |-> <<"3">>, CdtDbtInd |-> <<"D", "B", "I", "T">>,
     ValDt |-> [kind |-> "none", value |-> <<>>], BookgDt |-> [kind |-> "DtTm", value |-> <<"2", "0", "2", "5", "-", "0", "7", "-", "1", "6", "T", "1", "0", ":", "0", "0", ":", "0", "0">>],
     TxDtls |-> [shape |-> "single", subs |-> <<[present |-> TRUE, Amt |-> <<"3">>,
          RltdPties |-> [present |-> TRUE, Cdtr |-> [present |-> TRUE, Nm |-> <<"s", "h", "o", "p">>], Dbtr |-> [present |-> TRUE, Nm |-> <<"m", "e">>]],
          RmtInf |-> [present |-> TRUE, Ustrd |-> <<<<"a">>, <<"b">>>>]]>>],
     AddtlNtryInf |-> Absent, NtryRef |-> <<"n", "1">>]
EntryNoAmount ==
    [AcctSvcrRef |-> <<"r", "2">>, Amt |-> Absent, CdtDbtInd |-> <<"C", "R", "D", "T">>,
     ValDt |-> [kind |-> "Dt", value |-> <<"2", "0", "2", "5", "-", "0", "7", "-", "1", "5">>], BookgDt |-> [kind |-> "none", value |-> <<>>],
     TxDtls |-> [shape |-> "none", subs |-> <<>>],
     AddtlNtryInf |-> Absent, NtryRef |-> Absent]
EntryBadAmount ==
    [AcctSvcrRef |-> <<"r", "3">>, Amt |-> <<"a", "b", "c">>, CdtDbtInd |-> <<"C", "R", "D", "T">>,
     ValDt |-> [kind |-> "Dt", value |-> <<"2", "0", "2", "5", "-", "0", "7", "-", "1", "5">>], BookgDt |-> [kind |-> "none", value |-> <<>>],
     TxDtls |-> [shape |-> "none", subs |-> <<>>],
     AddtlNtryInf |-> Absent, NtryRef |-> Absent]
EntryNoDate ==
    [AcctSvcrRef |-> <<"r", "4">>, Amt |-> <<"4">>, CdtDbtInd |-> <<"C", "R", "D", "T">>,
     ValDt |-> [kind |-> "Dt", value |-> <<>>], BookgDt |-> [kind |-> "other", value |-> <<>>],
     TxDtls |-> [shape |-> "none", subs |-> <<>>],
     AddtlNtryInf |-> Absent, NtryRef |-> Absent]
EntryTextDate ==
    [AcctSvcrRef |-> <<"r", "5">>, Amt |-> <<"5">>, CdtDbtInd |-> <<"C", "R", "D", "T">>,
     ValDt |-> [kind |-> "text", value |-> <<"2", "0", "2", "5", "-", "0", "7", "-", "1", "5">>], BookgDt |-> [kind |-> "none", value |-> <<>>],
     TxDtls |-> [shape |-> "none", subs |-> <<>>],
     AddtlNtryInf |-> Absent, NtryRef |-> Absent]
EntryBatch ==
    [AcctSvcrRef |-> <<"r", "6">>, Amt |-> <<"9">>, CdtDbtInd |-> <<"D", "B", "I", "T">>,
     ValDt |-> [kind |-> "Dt", value |-> <<"2", "0", "2", "5", "-", "0", "7", "-", "1", "8">>], BookgDt |-> [kind |-> "none", value |-> <<>>],
     TxDtls |-> [shape |-> "array", subs |-> <<[present |-> TRUE, Amt |-> <<"1">>,
          RltdPties |-> [present |-> FALSE, Cdtr |-> [present |-> FALSE, Nm |-> Absent], Dbtr |-> [present |-> FALSE, Nm |-> Absent]],
          RmtInf |-> [present |-> TRUE, Ustrd |-> <<<<"u">>>>]],
         [present |-> TRUE, Amt |-> Absent,
          RltdPties |-> [present |-> TRUE, Cdtr |-> [present |-> TRUE, Nm |-> <<"s">>], Dbtr |-> [present |-> TRUE, Nm |-> <<"t">>]],
          RmtInf |-> [present |-> FALSE, Ustrd |-> <<>>]],
         [present |-> TRUE, Amt |-> <<"8">>,
          RltdPties |-> [present |-> FALSE, Cdtr |-> [present |-> FALSE, Nm |-> Absent], Dbtr |-> [present |-> FALSE, Nm |-> Absent]],
          RmtInf |-> [present |-> FALSE, Ustrd |-> <<>>]]>>],
     AddtlNtryInf |-> <<"b", "a", "t", "c", "h">>, NtryRef |-> Absent]
EntryNoParty ==
    [AcctSvcrRef |-> <<"r", "7">>, Amt |-> <<"7">>, CdtDbtInd |-> <<"D", "B", "I", "T">>,
     ValDt |-> [kind |-> "Dt", value |-> <<"2", "0", "2", "5", "-", "0", "7", "-", "1", "9">>], BookgDt |-> [kind |-> "none", value |-> <<>>],
     TxDtls |-> [shape |-> "single", subs |-> <<[present |-> TRUE, Amt |-> <<"7">>,
          RltdPties |-> [present |-> TRUE, Cdtr |-> [present |-> FALSE, Nm |-> Absent], Dbtr |-> [present |-> TRUE, Nm |-> <<"m", "e">>]],
          RmtInf |-> [present |-> FALSE, Ustrd |-> <<>>]]>>],
     AddtlNtryInf |-> Absent, NtryRef |-> Absent]
EntryBatch3 ==
    [AcctSvcrRef |-> <<"r", "8">>, Amt |-> <<"6", ".", "5", "0">>, CdtDbtInd |-> <<"D", "B", "I", "T">>,
     ValDt |-> [kind |-> "Dt", value |-> <<"2", "0", "2", "5", "-", "0", "7", "-", "2", "0">>], BookgDt |-> [kind |-> "none", value |-> <<>>],
     TxDtls |-> [shape |-> "array", subs |-> <<[present |-> TRUE, Amt |-> <<"1", ".", "5", "0">>,
          RltdPties |-> [present |-> FALSE, Cdtr |-> [present |-> FALSE, Nm |-> Absent], Dbtr |-> [present |-> FALSE, Nm |-> Absent]],
          RmtInf |-> [present |-> TRUE, Ustrd |-> <<<<"u">>>>]],
         [present |-> TRUE, Amt |-> <<"2">>,
          RltdPties |-> [present |-> TRUE, Cdtr |-> [present |-> TRUE, Nm |-> <<"s">>], Dbtr |-> [present |-> TRUE, Nm |-> <<"t">>]],
          RmtInf |-> [present |-> FALSE, Ustrd |-> <<>>]],
         [present |-> TRUE, Amt |-> <<"3">>,
          RltdPties |-> [present |-> FALSE, Cdtr |-> [present |-> FALSE, Nm |-> Absent], Dbtr |-> [present |-> FALSE, Nm |-> Absent]],
          RmtInf |-> [present |-> FALSE, Ustrd |-> <<>>]]>>],
     AddtlNtryInf |-> Absent, NtryRef |-> Absent]
EntryBatchCredit ==
    [AcctSvcrRef |-> <<"r", "9">>, Amt |-> <<"9">>, CdtDbtInd |-> <<"C", "R", "D", "T">>,
     ValDt |-> [kind |-> "Dt", value |-> <<"2", "0", "2", "5", "-", "0", "7", "-", "2", "1">>], BookgDt |-> [kind |-> "none", value |-> <<>>],
     TxDtls |-> [shape |-> "array", subs |-> <<[present |-> TRUE, Amt |-> <<"4">>,
          RltdPties |-> [present |-> FALSE, Cdtr |-> [present |-> FALSE, Nm |-> Absent], Dbtr |-> [present |-> FALSE, Nm |-> Absent]],
          RmtInf |-> [present |-> FALSE, Ustrd |-> <<>>]],
         [present |-> TRUE, Amt |-> <<"5">>,
          RltdPties |-> [present |-> TRUE, Cdtr |-> [present |-> TRUE, Nm |-> <<"s">>], Dbtr |-> [present |-> TRUE, Nm |-> <<"t">>]],
          RmtInf |-> [present |-> FALSE, Ustrd |-> <<>>]]>>],
     AddtlNtryInf |-> Absent, NtryRef |-> Absent]
EntryBatchNoDate ==
    [AcctSvcrRef |-> <<"r", "a">>, Amt |-> <<"9">>, CdtDbtInd |-> <<"C", "R", "D", "T">>,
     ValDt |-> [kind |-> "none", value |-> <<>>], BookgDt |-> [kind |-> "none", value |-> <<>>],
     TxDtls |-> [shape |-> "array", subs |-> <<[present |-> TRUE, Amt |-> <<"4">>,
          RltdPties |-> [present |-> FALSE, Cdtr |-> [present |-> FALSE, Nm |-> Absent], Dbtr |-> [present |-> FALSE, Nm |-> Absent]],
          RmtInf |-> [present |-> FALSE, Ustrd |-> <<>>]],
         [present |-> TRUE, Amt |-> <<"5">>,
          RltdPties |-> [present |-> TRUE, Cdtr |-> [present |-> TRUE, Nm |-> <<"s">>], Dbtr |-> [present |-> TRUE, Nm |-> <<"t">>]],
          RmtInf |-> [present |-> FALSE, Ustrd |-> <<>>]]>>],
     AddtlNtryInf |-> Absent, NtryRef |-> Absent]
EntryBatchNoParty ==
    [AcctSvcrRef |-> <<"r", "0">>, Amt |-> <<"9">>, CdtDbtInd |-> <<"D", "B", "I", "T">>,
     ValDt |-> [kind |-> "Dt", value |-> <<"2", "0", "2", "5", "-", "0", "7", "-", "2", "2">>], BookgDt |-> [kind |-> "none", value |-> <<>>],
     TxDtls |-> [shape |-> "array", subs |-> <<[present |-> TRUE, Amt |-> <<"4">>,
          RltdPties |-> [present |-> FALSE, Cdtr |-> [present |-> FALSE, Nm |-> Absent], Dbtr |-> [present |-> FALSE, Nm |-> Absent]],
          RmtInf |-> [present |-> FALSE, Ustrd |-> <<>>]],
         [present |-> TRUE, Amt |-> <<"5">>,
          RltdPties |-> [present |-> TRUE, Cdtr |-> [present |-> FALSE, Nm |-> Absent], Dbtr |-> [present |-> TRUE, Nm |-> <<"t">>]],
          RmtInf |-> [present |-> FALSE, Ustrd |-> <<>>]]>>],
     AddtlNtryInf |-> Absent, NtryRef |-> Absent]
EntryKinds ==
    {EntryCredit, EntryDebit, EntryNoAmount, EntryBadAmount, EntryNoDate, EntryTextDate, EntryBatch,
     EntryNoParty, EntryBatch3, EntryBatchCredit, EntryBatchNoDate, EntryBatchNoParty}

CamtFiles ==
    {XmlFile("strict", NoTree, entries) : entries \in SeqsUpTo(EntryKinds, MaxEntries)}

CamtOddFiles ==
    { XmlFile("broken", NoTree, <<EntryCredit>>),
      XmlFile("sgml", NoTree, <<EntryCredit>>) }

\* ---- CSV files: a header line, then rows
MaxRows == 2

CsvHeader == <<"D", "a", "t", "e", ",", "A", "m", "o", "u", "n", "t", ",", "P", "a", "y", "e", "e">>
CsvRowGood1 == <<"2", "0", "2", "5", "-", "0", "7", "-", "1", "5", ",", "1", ".", "5", "0", ",", "S", "h", "o", "p">>
CsvRowGood2 == <<"2", "0", "2", "5", "-", "0", "7", "-", "1", "6", ",", "\"", "-", "2", ",", "5", "0", "\"", ",", "f", "o", "o", "d">>
CsvRowBadAmount == <<"2", "0", "2", "5", "-", "0", "7", "-", "1", "5", ",", "a", "b", "c", ",", "S", "h", "o", "p">>
CsvRowNoAmount == <<"2", "0", "2", "5", "-", "0", "7", "-", "1", "7", ",", ",", "S", "h", "o", "p">>
CsvRowBadDate == <<"s", "o", "o", "n", ",", "3", ",", "S", "h", "o", "p">>
CsvRowShort == <<"2", "0", "2", "5", "-", "0", "7", "-", "1", "8">>
CsvRowKinds ==
    {CsvRowGood1, CsvRowGood2, CsvRowBadAmount, CsvRowNoAmount, CsvRowBadDate, CsvRowShort}

CsvFiles ==
    {TextFile(<<CsvHeader>> \o rows) : rows \in SeqsUpTo(CsvRowKinds, MaxRows)}

\* CSV texts with other columns, without header, with a broken quote, with
\* tabs, with blank lines
CsvOddFiles ==
    { TextFile(<<<<"D", "a", "t", "e", ",", "I", "n", "f", "l", "o", "w", ",", "O", "u", "t", "f", "l", "o", "w", ",", "M", "e", "m", "o">>, <<"2", "0", "2", "5", "-", "0", "7", "-", "1", "5", ",", "1", ".", "5", "0", ",", ",", "a">>, <<"2", "0", "2", "5", "-", "0", "7", "-", "1", "6", ",", ",", "2", ",", "b">>, <<"2", "0", "2", "5", "-", "0", "7", "-", "1", "7", ",", "x", ",", "y", ",", "c">>>>),
      TextFile(<<<<"2", "0", "2", "5", "-", "0", "7", "-", "1", "5", ",", "1", ".", "5", "0", ",", "S", "h", "o", "p">>, <<"2", "0", "2", "5", "-", "0", "7", "-", "1", "6", ",", "a", "b", "c", ",", "S", "h", "o", "p">>>>),
      TextFile(<<<<"D", "a", "t", "e", ",", "A", "m", "o", "u", "n", "t", ",", "P", "a", "y", "e", "e">>, <<"2", "0", "2", "5", "-", "0", "7", "-", "1", "5", ",", "\"", "1", ".", "5", "0", ",", "S", "h", "o", "p">>>>),
      TextFile(<<<<"D", "a", "t", "e", ",", "A", "m", "o", "u", "n", "t", ",", "P", "a", "y", "e", "e">>, <<"2", "0", "2", "5", "-", "0", "7", "-", "1", "5", ",", "1", "\"", "5", ",", "S", "h", "o", "p">>>>),
      TextFile(<<<<"D", "a", "t", "e", "\t", "A", "m", "o", "u", "n", "t", "\t", "P", "a", "y", "e", "e">>, <<"2", "0", "2", "5", "-", "0", "7", "-", "1", "5", "\t", "1", ".", "5", "0", "\t", "S", "h", "o", "p">>, <<"2", "0", "2", "5", "-", "0", "7", "-", "1", "6", "\t", "a", "b", "c", "\t">>>>),
      TextFile(<<<<"P", "o", "s", "t", "e", "d", ",", "V", "a", "l", "u", "e">>, <<"2", "0", "2", "5", "-", "0", "7", "-", "1", "5", ",", "1", ".", "5", "0">>>>),
      TextFile(<<<<"W", "h", "e", "n", ",", "C", "a", "t", "e", "g", "o", "r", "y", ",", "A", "m", "o", "u", "n", "t">>, <<"1", "5", "/", "0", "7", "/", "2", "0", "2", "5", ",", "f", "o", "o", "d", ",", "1", ".", "5", "0">>, <<"1", "6", "/", "0", "7", "/", "2", "0", "2", "5", ",", "f", "f", "f", "f", "f", "f", "f", "f", "f", "f", "f", "f", "f", "f", "f", "f", "f", "f", "f", "f", ",", "2">>>>),
      TextFile(<<<<"b", "a", "n", "k", " ", "e", "x", "p", "o", "r", "t">>, <<>>, <<"D", "a", "t", "e", ",", "A", "m", "o", "u", "n", "t", ",", "P", "a", "y", "e", "e">>, <<"2", "0", "2", "5", "-", "0", "7", "-", "1", "5", ",", "1", ".", "5", "0", ",", "S", "h", "o", "p">>, <<>>, <<"t", "o", "t", "a", "l", " ", "1">>>>),
      TextFile(<<<<>>>>) }

\* ---- the options of a run
OptionProfiles ==
    { DefaultOptions,
      [DefaultOptions EXCEPT !.importNotes = FALSE],
      [DefaultOptions EXCEPT !.fallbackPayeeToMemo = TRUE],
      [DefaultOptions EXCEPT !.csvHeader = FALSE, !.csvDateCol = <<"0">>,
                             !.csvAmountCol = <<" ", "1">>],
      [DefaultOptions EXCEPT !.csvHeader = FALSE],
      [DefaultOptions EXCEPT !.csvDelimiter = <<"\t">>],
      [DefaultOptions EXCEPT !.csvSkipStart = 2, !.csvSkipEnd = 1],
      [DefaultOptions EXCEPT !.csvSkipEnd = 7],
      [DefaultOptions EXCEPT !.flipAmount = TRUE, !.multiplier = <<"1", "0">>],
      [DefaultOptions EXCEPT !.csvInoutCol = <<"P", "a", "y", "e", "e">>, !.csvOutValue = <<"S", "h", "o", "p">>],
      [DefaultOptions EXCEPT !.dateFormat = "dd mm yyyy"],
      [DefaultOptions EXCEPT !.dateFormat = "iso"],
      [DefaultOptions EXCEPT !.reconcile = FALSE],
      [DefaultOptions EXCEPT !.dryRun = TRUE],
      [DefaultOptions EXCEPT !.reconcile = FALSE, !.dryRun = TRUE, !.clear = FALSE] }

TextFiles == QifFiles \cup QifOddFiles \cup CsvFiles \cup CsvOddFiles

XmlFiles == OfxFiles \cup OfxOddFiles \cup CamtFiles \cup CamtOddFiles

\* the paths an XML document is imported from
XmlPaths ==
    {p \in Paths : extension(p) \notin {ExtCsv, ExtTsv, ExtQif}}

\* a few files of each kind, imported under every path and every profile
SampleTextFiles ==
    QifOddFiles \cup CsvOddFiles
        \cup { TextFile(<<QifHeader>> \o QifBody(<<QifGood1, QifBadAmount, QifGood2>>, TRUE)),
               TextFile(<<CsvHeader, CsvRowGood1, CsvRowBadAmount>>),
               TextFile(<<CsvHeader, CsvRowGood2, CsvRowGood1>>) }

SampleXmlFiles ==
    OfxOddFiles \cup CamtOddFiles
        \cup { XmlFile("strict", BankTree(<<StmtGood1, StmtBadAmount, StmtGood2>>), <<>>),
               XmlFile("strict", NoTree, <<EntryCredit, EntryBatch, EntryDebit>>) }

Run(path, file, options) == [path |-> path, file |-> file, options |-> options]

PlainTextPaths == {<<"a", ".", "c", "s", "v">>, <<"a", ".", "t", "s", "v">>, <<"a", ".", "q", "i", "f">>}

PlainXmlPaths == {<<"a", ".", "o", "f", "x">>, <<"a", ".", "q", "f", "x">>, <<"a", ".", "x", "m", "l">>}

\* the runs: every file under the plain path of its kind, the sample files
\* under every path, and the sample files under every option profile
ImportRuns ==
    {Run(<<"a", ".", "q", "i", "f">>, f, DefaultOptions) : f \in QifFiles}
        \cup {Run(<<"a", ".", "c", "s", "v">>, f, DefaultOptions) : f \in CsvFiles}
        \cup {Run(<<"a", ".", "o", "f", "x">>, f, DefaultOptions) : f \in OfxFiles}
        \cup {Run(<<"a", ".", "x", "m", "l">>, f, DefaultOptions) : f \in CamtFiles}
        \cup {Run(p, f, DefaultOptions) : p \in Paths, f \in SampleTextFiles \cup {Unreadable}}
        \cup {Run(p, f, DefaultOptions) : p \in XmlPaths, f \in SampleXmlFiles}
        \cup {Run(p, f, o) : p \in PlainTextPaths, f \in SampleTextFiles,
                             o \in OptionProfiles}
        \cup {Run(p, f, o) : p \in PlainXmlPaths, f \in SampleXmlFiles,
                             o \in OptionProfiles}

Init ==
    /\ \E run \in ImportRuns :
           /\ importPath = run.path
           /\ disk = run.file
           /\ importOptions = run.options
    /\ cmd = "start"
    /\ parseResult = NoResult
    /\ normalizedResult = NoNormalized
    /\ ledger = <<>>
    /\ insertCalls = 0
    /\ exitCode = 0
    /\ AmountIdleVars
    /\ DateIdle
    /\ CallIdle

Next ==
    \/ OpenBudget
    \/ ParseFileAwait
    \/ ParseFileReturns
    \/ Normalize
    \/ Validate
    \/ Insert

Spec == Init /\ [][Next]_vars

-----------------------------------------------------------------------------
(* SpecCsv: one call of a function of the CSV import, with its arguments   *)
(* drawn from small sets of cells, rows, lines and options.                *)

\* ---- the calls of parseAmountFields
OutflowCells == {Absent, <<>>, <<"5", "0", ".", "0", "0">>, <<"-", "7">>, <<"a", "b", "c">>}
InflowCells == {Absent, <<>>, <<"3", "0">>, <<"-", "4">>}
AmountCells == {Absent, <<"1", "2", ".", "5", "0">>, <<"-", "2", "0">>, <<"a", "b", "c">>, <<"0">>}
MarkerCells == {Absent, <<"o", "u", "t">>, <<"i", "n">>}
OutValues == {<<>>, <<"o", "u", "t">>}
MultiplierTexts == {<<"1">>, <<"-", "2">>, <<"0">>, <<"0", ".", "5">>, <<"x", "2">>, <<"3", " ">>, <<>>}

AmountFieldsCalls ==
    {[fn |-> "parseAmountFields",
      transaction |-> [outflow |-> o, inflow |-> i, amount |-> a, inOut |-> k],
      splitMode |-> s, inOutMode |-> io, outValue |-> ov, flipAmount |-> f,
      multiplierAmount |-> m] :
        o \in OutflowCells, i \in InflowCells, a \in AmountCells, k \in MarkerCells,
        s \in BOOLEAN, io \in BOOLEAN, ov \in OutValues, f \in BOOLEAN,
        m \in MultiplierTexts}

\* ---- the calls of detectCsvMappings: the rows the CSV reader makes of a
\* header record and at most MaxSheet records
MaxSheet == 2

SheetHeaders ==
    { <<<<"D", "a", "t", "e">>, <<"A", "m", "o", "u", "n", "t">>, <<"P", "a", "y", "e", "e">>>>,
      <<<<"W", "h", "e", "n">>, <<"V", "a", "l", "u", "e">>>>,
      <<<<"M", "e", "m", "o">>, <<"D", "e", "b", "i", "t">>, <<"C", "r", "e", "d", "i", "t">>, <<"I", "n", "/", "O", "u", "t">>>>,
      <<<<"V", "a", "l", "u", "e">>, <<"7">>>>,
      <<<<"C", "a", "t", "e", "g", "o", "r", "y">>, <<"N", "o", "t", "e", "s">>, <<"a", "m", "o", "u", "n", "t", " ", "d", "a", "t", "e">>>>,
      <<<<"X">>, <<"X">>>>,
      <<<<"P", "A", "Y", "E", "E">>, <<"O", "u", "t", "f", "l", "o", "w">>, <<"I", "n", "f", "l", "o", "w">>>> }

SheetRecords ==
    { <<<<"2", "0", "2", "5", "-", "0", "7", "-", "1", "5">>, <<"1", ".", "5", "0">>, <<"S", "h", "o", "p">>>>,
      <<<<"1", ".", "5", "0">>, <<"2", "0", "2", "5", "/", "0", "7", "/", "1", "6">>>>,
      <<<<"a", "b", "c">>, <<"-", "2", ",", "5", "0">>, <<"3">>, <<"o", "u", "t">>>>,
      <<<<"1", "5", "-", "0", "7", "-", "2", "0", "2", "5">>>>,
      <<<<"x">>, <<"y">>, <<"z">>>>,
      <<<<"1", ".", "5", "0">>, <<"2", ".", "5", "0">>>> }

\* the rows parseCsv returns for the records, under the header or without
sheetRows(hasHeaderRow, header, records) ==
    [i \in 1..Len(records) |->
        IF hasHeaderRow THEN objectRow(header, records[i]) ELSE arrayRow(records[i])]

DetectCalls ==
    {[fn |-> "detectCsvMappings", hasHeaderRow |-> h, header |-> hd, records |-> rs] :
        h \in BOOLEAN, hd \in SheetHeaders, rs \in SeqsUpTo(SheetRecords, MaxSheet)}

\* ---- the calls of applyLineSkips: a text of at most MaxLines lines, as
\* contents.split(/\r?\n/) gives it (a text that ends with a line break has
\* an empty last element), and skips of at most MaxSkip lines
MaxLines == 3
MaxSkip == 3

SkipLineTexts == {<<"h">>, <<"r", ",", "1">>, <<>>}

SkipTexts ==
    {body \o tail : body \in SeqsUpTo(SkipLineTexts, MaxLines), tail \in {<<>>, <<<<>>>>}}
        \ {<<>>}

SkipCalls ==
    {[fn |-> "applyLineSkips", lines |-> ls, skipStartLines |-> a, skipEndLines |-> b] :
        ls \in SkipTexts, a \in 0..MaxSkip, b \in 0..MaxSkip}

CsvCalls == AmountFieldsCalls \cup DetectCalls \cup SkipCalls

InitCsv ==
    /\ call \in CsvCalls
    /\ ret = NotReturned
    /\ AmountIdleVars
    /\ DateIdle
    /\ ImportIdle

\* parseAmountFields is called with the arguments and returns
CallParseAmountFields ==
    /\ call.fn = "parseAmountFields"
    /\ ~ret.done
    /\ ret' = [done |-> TRUE,
               value |-> parseAmountFields(call.transaction, call.splitMode,
                                           call.inOutMode, call.outValue,
                                           call.flipAmount, call.multiplierAmount)]
    /\ UNCHANGED <<call, amountVars, dateVars, importVars>>

\* detectCsvMappings is called with the rows and returns
CallDetectCsvMappings ==
    /\ call.fn = "detectCsvMappings"
    /\ ~ret.done
    /\ ret' = [done |-> TRUE,
               value |-> detectCsvMappings(sheetRows(call.hasHeaderRow, call.header,
                                                     call.records))]
    /\ UNCHANGED <<call, amountVars, dateVars, importVars>>

\* applyLineSkips is called with the text and the skips, and returns or
\* throws
CallApplyLineSkips ==
    /\ call.fn = "applyLineSkips"
    /\ ~ret.done
    /\ ret' = [done |-> TRUE,
               value |-> IF skipThrows(call.lines, call.skipStartLines, call.skipEndLines)
                         THEN Threw("Cannot skip lines")
                         ELSE Returned(applyLineSkips(call.lines, call.skipStartLines,
                                                      call.skipEndLines))]
    /\ UNCHANGED <<call, amountVars, dateVars, importVars>>

NextCsv ==
    \/ CallParseAmountFields
    \/ CallDetectCsvMappings
    \/ CallApplyLineSkips

SpecCsv == InitCsv /\ [][NextCsv]_vars

-----------------------------------------------------------------------------
(* The SGML repair: sgmlToXml, a chain of replace calls over the text       *)

\* the number of whitespace characters s starts with
RECURSIVE SpaceRun(_)
SpaceRun(s) == IF s = <<>> \/ ~IsSpace(Head(s)) THEN 0 ELSE 1 + SpaceRun(Tail(s))

\* the number of word characters s starts with
RECURSIVE WordRun(_)
WordRun(s) == IF s = <<>> \/ ~IsWordChar(Head(s)) THEN 0 ELSE 1 + WordRun(Tail(s))

\* the number of characters other than '<' s starts with
RECURSIVE TextRun(_)
TextRun(s) == IF s = <<>> \/ Head(s) = "<" THEN 0 ELSE 1 + TextRun(Tail(s))

\* .replace(/>\s+</g, '><')
RECURSIVE dropSpaceBetweenTags(_)
dropSpaceBetweenTags(s) ==
    IF s = <<>> THEN <<>>
    ELSE IF /\ Head(s) = ">"
            /\ SpaceRun(Tail(s)) > 0
            /\ SpaceRun(Tail(s)) < Len(Tail(s))
            /\ Tail(s)[SpaceRun(Tail(s)) + 1] = "<"
    THEN <<">">> \o dropSpaceBetweenTags(From(Tail(s), SpaceRun(Tail(s))))
    ELSE <<Head(s)>> \o dropSpaceBetweenTags(Tail(s))

\* .replace(/\s+</g, '<')
RECURSIVE dropSpaceBeforeTag(_)
dropSpaceBeforeTag(s) ==
    IF s = <<>> THEN <<>>
    ELSE IF SpaceRun(s) = 0 THEN <<Head(s)>> \o dropSpaceBeforeTag(Tail(s))
    ELSE IF SpaceRun(s) < Len(s) /\ s[SpaceRun(s) + 1] = "<"
    THEN dropSpaceBeforeTag(From(s, SpaceRun(s)))
    ELSE SubSeq(s, 1, SpaceRun(s)) \o dropSpaceBeforeTag(From(s, SpaceRun(s)))

\* .replace(/>\s+/g, '>')
RECURSIVE dropSpaceAfterTag(_)
dropSpaceAfterTag(s) ==
    IF s = <<>> THEN <<>>
    ELSE IF Head(s) = ">"
    THEN <<">">> \o dropSpaceAfterTag(From(Tail(s), SpaceRun(Tail(s))))
    ELSE <<Head(s)>> \o dropSpaceAfterTag(Tail(s))

\* the lookahead (?=[^<>]*>): the next '<' or '>' is a '>'
RECURSIVE closesTag(_)
closesTag(s) ==
    IF s = <<>> THEN FALSE
    ELSE IF Head(s) = ">" THEN TRUE
    ELSE IF Head(s) = "<" THEN FALSE
    ELSE closesTag(Tail(s))

\* .replace(/\.(?=[^<>]*>)/g, '')
RECURSIVE dropTagDots(_)
dropTagDots(s) ==
    IF s = <<>> THEN <<>>
    ELSE IF Head(s) = "." /\ closesTag(Tail(s)) THEN dropTagDots(Tail(s))
    ELSE <<Head(s)>> \o dropTagDots(Tail(s))

\* the marker of a closing tag that was added
AddedMark == <<"<", "/", "<", "a", "d", "d", "e", "d", ">">>

\* /<(\w+?)>([^<]+)/ matches at the start of s
opensLeaf(s) ==
    /\ s # <<>>
    /\ Head(s) = "<"
    /\ WordRun(Tail(s)) > 0
    /\ WordRun(Tail(s)) + 2 <= Len(s)
    /\ s[WordRun(Tail(s)) + 2] = ">"
    /\ TextRun(From(s, WordRun(Tail(s)) + 2)) > 0

\* the match <name>text of the start of s, n the length of the name, with
\* the marked closing tag after it
leafClosed(s, n) ==
    SubSeq(s, 1, n + 2 + TextRun(From(s, n + 2)))
        \o AddedMark \o SubSeq(s, 2, n + 1) \o <<">">>

\* .replace(/<(\w+?)>([^<]+)/g, '<$1>$2</<added>$1>')
RECURSIVE addClosing(_)
addClosing(s) ==
    IF s = <<>> THEN <<>>
    ELSE IF opensLeaf(s)
    THEN leafClosed(s, WordRun(Tail(s)))
            \o addClosing(From(s, WordRun(Tail(s)) + 2
                                     + TextRun(From(s, WordRun(Tail(s)) + 2))))
    ELSE <<Head(s)>> \o addClosing(Tail(s))

\* /<\/<added>(\w+?)>/ matches at the start of s
closesAdded(s) ==
    /\ StartsWith(s, AddedMark)
    /\ WordRun(From(s, Len(AddedMark))) > 0
    /\ Len(AddedMark) + WordRun(From(s, Len(AddedMark))) + 1 <= Len(s)
    /\ s[Len(AddedMark) + WordRun(From(s, Len(AddedMark))) + 1] = ">"

\* the closing tag </name>
ClosingTag(name) == <<"<", "/">> \o name \o <<">">>

\* what is left of s after the marked closing tag of a name of length n,
\* the closing tag of the source left in place
afterAddedKeepsSource(s, n) == From(s, Len(AddedMark) + n + 1)

\* what is left of s after the marked closing tag of a name of length n and
\* the closing tag of the source right after it, if there is one
afterAdded(s, n) ==
    IF StartsWith(From(s, Len(AddedMark) + n + 1),
                  ClosingTag(SubSeq(s, Len(AddedMark) + 1, Len(AddedMark) + n)))
    THEN From(s, Len(AddedMark) + n + 1 + n + 3)
    ELSE From(s, Len(AddedMark) + n + 1)

\* .replace(/<\/<added>(\w+?)>(<\/\1>)?/g, '</$1>')
RECURSIVE mergeClosing(_)
mergeClosing(s) ==
    IF s = <<>> THEN <<>>
    ELSE IF closesAdded(s)
    THEN ClosingTag(SubSeq(s, Len(AddedMark) + 1,
                           Len(AddedMark) + WordRun(From(s, Len(AddedMark)))))
            \o mergeClosing(afterAdded(s, WordRun(From(s, Len(AddedMark)))))
    ELSE <<Head(s)>> \o mergeClosing(Tail(s))

sgmlToXml(sgml) ==
    mergeClosing(addClosing(dropTagDots(dropSpaceAfterTag(dropSpaceBeforeTag(
        dropSpaceBetweenTags(
            ReplaceAllSub(ReplaceAllSub(sgml, <<"&">>, <<"&", "#", "0", "3", "8", ";">>),
                          <<"&", "a", "m", "p", ";">>,
                          <<"&", "#", "0", "3", "8", ";">>)))))))

-----------------------------------------------------------------------------
(* The OFX header block (ofxToJson, before the body is parsed)              *)

\* line.split(/:/, 2): the first two of the pieces between the colons
splitLimitTwo(line) ==
    IF Len(SplitOn(line, ":")) > 2 THEN SubSeq(SplitOn(line, ":"), 1, 2)
    ELSE SplitOn(line, ":")

\* headers[header[0]] = header[1]; header[1] is undefined without a colon
headerPut(headers, header) ==
    PutCell(headers, header[1], IF Len(header) >= 2 THEN header[2] ELSE Absent)

\* the loop over the lines of the header block, empty lines skipped
RECURSIVE ofxHeaders(_, _)
ofxHeaders(headerString, headers) ==
    IF headerString = <<>> THEN headers
    ELSE IF Head(headerString) = <<>> THEN ofxHeaders(Tail(headerString), headers)
    ELSE ofxHeaders(Tail(headerString), headerPut(headers, splitLimitTwo(Head(headerString))))

-----------------------------------------------------------------------------
(* SpecReader: one call of a reader, or of a function of a reader, on one   *)
(* input                                                                    *)

\* ---- CAMT documents of one entry with a single TxDtls
PartyBlocks ==
    { [present |-> FALSE, Cdtr |-> [present |-> FALSE, Nm |-> Absent],
                          Dbtr |-> [present |-> FALSE, Nm |-> Absent]],
      [present |-> TRUE, Cdtr |-> [present |-> TRUE, Nm |-> <<"s", "h", "o", "p", " ", "a", "b">>],
                         Dbtr |-> [present |-> TRUE, Nm |-> <<"m", "e">>]],
      [present |-> TRUE, Cdtr |-> [present |-> TRUE, Nm |-> Absent],
                         Dbtr |-> [present |-> TRUE, Nm |-> <<>>]],
      [present |-> TRUE, Cdtr |-> [present |-> FALSE, Nm |-> Absent],
                         Dbtr |-> [present |-> TRUE, Nm |-> <<"m", "e">>]] }

\* AddtlNtryInf: none, a text of its own, the creditor's name, a part of it
EntryInfos == {Absent, <<"i", "n", "f", "o">>, <<"s", "h", "o", "p", " ", "a", "b">>, <<"a", "b">>}

\* RmtInf: none, a part of the creditor's name, two lines, an empty Ustrd
RemittanceBlocks ==
    { [present |-> FALSE, Ustrd |-> <<>>],
      [present |-> TRUE, Ustrd |-> <<<<"a", "b">>>>],
      [present |-> TRUE, Ustrd |-> <<<<"a">>, <<"b">>>>],
      [present |-> TRUE, Ustrd |-> <<<<>>>>] }

EntryRefs == {Absent, <<"n", "1">>}

EntryAmounts == {Absent, <<"3">>}

Indicators == {<<"D", "B", "I", "T">>, <<"C", "R", "D", "T">>}

SingleEntry(parties, info, remittance, ref, amt, ind) ==
    [AcctSvcrRef |-> Absent, Amt |-> amt, CdtDbtInd |-> ind,
     ValDt |-> [kind |-> "Dt", value |-> <<"2", "0", "2", "5", "-", "0", "7", "-", "1", "5">>],
     BookgDt |-> [kind |-> "none", value |-> <<>>],
     TxDtls |-> [shape |-> "single",
                 subs |-> <<[present |-> TRUE, Amt |-> Absent,
                             RltdPties |-> parties, RmtInf |-> remittance]>>],
     AddtlNtryInf |-> info, NtryRef |-> ref]

SingleEntries ==
    {SingleEntry(parties, info, remittance, ref, amt, ind) :
        parties \in PartyBlocks, info \in EntryInfos, remittance \in RemittanceBlocks,
        ref \in EntryRefs, amt \in EntryAmounts, ind \in Indicators}

CamtCalls ==
    {[fn |-> "camtToJson", body |-> [form |-> "strict", tree |-> NoTree, entries |-> <<entry>>]] :
        entry \in SingleEntries}

\* ---- QIF texts of split lines: after the header, lines that set the
\* split category with and without subcategory, the split description, the
\* split amount, the date, and lines '^'
MaxSplitLines == 5

SplitLineKinds == {<<"S", "a", ":", "b">>, <<"S", "c">>, <<"E", "x">>, <<"D", "1">>, <<"$", "1">>, <<"^">>}

SplitCalls ==
    {[fn |-> "qifToJson", lines |-> <<QifHeader>> \o body] :
        body \in SeqsUpTo(SplitLineKinds, MaxSplitLines)}

\* ---- OFX header blocks: lines with one colon, with more, with none, with
\* nothing after or before the colon, a key that comes twice, an empty line
MaxHeaderLines == 3

HeaderLineKinds == {<<"O", "F", "X", "H", "E", "A", "D", "E", "R", ":", "1", "0", "0">>, <<"K", ":", "a", ":", "b">>, <<"K", ":", "c">>, <<"V", ":">>, <<"n", "o", "n", "e">>, <<":", "v">>, <<>>}

HeaderCalls ==
    {[fn |-> "ofxHeaders", lines |-> block] :
        block \in SeqsUpTo(HeaderLineKinds, MaxHeaderLines)}

\* ---- SGML texts: opening and closing tags, a tag with a dot in its name,
\* texts with and without a dot, a blank
MaxTokens == 4

SgmlTokens == {<<"<", "A", ">">>, <<"<", "/", "A", ">">>, <<"<", "B", ">">>, <<"<", "/", "B", ">">>, <<"<", "I", ".", "D", ">">>, <<"x">>, <<"1", ".", "5">>, <<" ">>}

SgmlCalls ==
    {[fn |-> "sgmlToXml", tokens |-> tokens] : tokens \in SeqsUpTo(SgmlTokens, MaxTokens)}

ReaderCalls == CamtCalls \cup SplitCalls \cup HeaderCalls \cup SgmlCalls

InitReader ==
    /\ call \in ReaderCalls
    /\ ret = NotReturned
    /\ AmountIdleVars
    /\ DateIdle
    /\ ImportIdle

\* camtToJson is called on the document and returns or throws
CallCamtToJson ==
    /\ call.fn = "camtToJson"
    /\ ~ret.done
    /\ ret' = [done |-> TRUE, value |-> camtToJson(call.body)]
    /\ UNCHANGED <<call, amountVars, dateVars, importVars>>

\* qifToJson is called on the text and returns or throws
CallQifToJson ==
    /\ call.fn = "qifToJson"
    /\ ~ret.done
    /\ ret' = [done |-> TRUE, value |-> qifToJson(call.lines)]
    /\ UNCHANGED <<call, amountVars, dateVars, importVars>>

\* the header block of ofxToJson runs on the lines
CallOfxHeaders ==
    /\ call.fn = "ofxHeaders"
    /\ ~ret.done
    /\ ret' = [done |-> TRUE, value |-> ofxHeaders(call.lines, <<>>)]
    /\ UNCHANGED <<call, amountVars, dateVars, importVars>>

\* sgmlToXml is called on the text the tokens spell
CallSgmlToXml ==
    /\ call.fn = "sgmlToXml"
    /\ ~ret.done
    /\ ret' = [done |-> TRUE, value |-> sgmlToXml(Flatten(call.tokens))]
    /\ UNCHANGED <<call, amountVars, dateVars, importVars>>

NextReader ==
    \/ CallCamtToJson
    \/ CallQifToJson
    \/ CallOfxHeaders
    \/ CallSgmlToXml

SpecReader == InitReader /\ [][NextReader]_vars

-----------------------------------------------------------------------------
(* SpecPair: two invocations of parseFile under way at once.  An           *)
(* invocation runs without interruption up to an await and from an await   *)
(* to the next; at an await the other invocation may run.  The awaits are  *)
(* those of the XML parser: one or two in ofxToJson, one in camtToJson.    *)

\* the files and options the two invocations are given
PairRuns ==
    { Run(<<"a", ".", "q", "i", "f">>,
          TextFile(<<QifHeader>> \o QifBody(<<QifGood1, QifGood2>>, TRUE)),
          parseOptions(DefaultOptions)),
      Run(<<"a", ".", "q", "i", "f">>, TextFile(<<CsvHeader, CsvRowGood1>>),
          parseOptions(DefaultOptions)),
      Run(<<"a", ".", "c", "s", "v">>, TextFile(<<CsvHeader, CsvRowGood1>>),
          parseOptions(DefaultOptions)),
      Run(<<"a", ".", "t", "x", "t">>, TextFile(<<CsvHeader, CsvRowGood1>>),
          parseOptions(DefaultOptions)),
      Run(<<"a", ".", "o", "f", "x">>, Unreadable, parseOptions(DefaultOptions)),
      Run(<<"a", ".", "o", "f", "x">>,
          XmlFile("strict", BankTree(<<StmtGood1, StmtGood2>>), <<>>),
          parseOptions(DefaultOptions)),
      Run(<<"a", ".", "o", "f", "x">>,
          XmlFile("strict", BankTree(<<StmtGood1, StmtBadAmount, StmtNoAmount>>), <<>>),
          parseOptions([DefaultOptions EXCEPT !.importNotes = FALSE])),
      Run(<<"a", ".", "o", "f", "x">>,
          XmlFile("strict", BankTree(<<StmtGood1, StmtNestedDate>>), <<>>),
          parseOptions(DefaultOptions)),
      Run(<<"a", ".", "q", "f", "x">>,
          XmlFile("sgml", BankTree(<<StmtBadAmount, StmtGood2>>), <<>>),
          parseOptions(DefaultOptions)),
      Run(<<"a", ".", "o", "f", "x">>,
          XmlFile("broken", BankTree(<<StmtGood1>>), <<>>),
          parseOptions(DefaultOptions)),
      Run(<<"a", ".", "x", "m", "l">>,
          XmlFile("strict", NoTree, <<EntryCredit, EntryBatch>>),
          parseOptions(DefaultOptions)),
      Run(<<"a", ".", "x", "m", "l">>,
          XmlFile("broken", NoTree, <<EntryCredit>>),
          parseOptions(DefaultOptions)) }

\* an invocation that has not begun: where it stands, the parse attempts
\* of its OFX reader so far, its errors array, and what it returned
NewInvocation ==
    [pc |-> "start", attempts |-> <<>>, errors |-> <<>>, result |-> NoResult]

\* an errors array that the invocations have in common
errorsShared(tasks, id) == Flatten([i \in 1..Len(tasks) |-> tasks[i].errors])

\* const errors = []: the array of this invocation
errorsOf(tasks, id) == tasks[id].errors

\* errors.push(...) for the errors of the branch, then return {errors, ...}
Finished(tasks, id, outcome) ==
    [pc |-> "done",
     attempts |-> tasks[id].attempts,
     errors |-> errorsOf(tasks, id) \o outcome.errors,
     result |-> [outcome EXCEPT !.errors = errorsOf(tasks, id) \o @]]

\* parseFile from its call to its first await, or to its return when the
\* branch awaits nothing or the file cannot be read; the OFX reader makes
\* its strict parse attempt before it is suspended
started(run, tasks, id) ==
    IF AwaitsReader(run.path) /\ run.file.readable
    THEN IF extension(run.path) = ExtXml
         THEN [tasks[id] EXCEPT !.pc = "camt"]
         ELSE [tasks[id] EXCEPT !.pc = "strict", !.attempts = <<"strict">>]
    ELSE Finished(tasks, id, parseFile(run.path, run.options, run.file))

\* a catch that runs whatever the strict parse did
strictFailedAlways(body) == TRUE

\* try { parsed = await parseXml(content) } catch { ... }: the catch runs
\* when the strict parse rejected
strictFailed(body) == ~ParsesStrict(body)

\* ofxToJson from the strict parse settling: the repaired parse attempt
\* when it failed, else the mapping and the rest of parseFile
afterStrict(run, tasks, id) ==
    IF strictFailed(run.file.xml)
    THEN [tasks[id] EXCEPT !.pc = "repaired", !.attempts = Append(@, "repaired")]
    ELSE Finished(tasks, id,
                  ofxResult(ofxMapAll(getStmtTransactions(run.file.xml.tree)),
                            run.options))

\* ofxToJson from the repaired parse settling: it throws when that parse
\* rejected too, and parseFile catches
afterRepaired(run, tasks, id) ==
    Finished(tasks, id,
             ofxResult(IF ParsesRepaired(run.file.xml)
                       THEN ofxMapAll(getStmtTransactions(run.file.xml.tree))
                       ELSE Threw("XML parse error"),
                       run.options))

\* the state of the pair after invocation id has run to its next await
Stepped(r, id, task) ==
    [done |-> \A i \in DOMAIN r.tasks : i = id \/ r.tasks[i].pc = "done",
     tasks |-> [r.tasks EXCEPT ![id] = task],
     order |-> Append(r.order, id)]

InitPair ==
    /\ \E first \in PairRuns, second \in PairRuns :
           call = [fn |-> "parseFile", runs |-> <<first, second>>]
    /\ ret = [done |-> FALSE, tasks |-> <<NewInvocation, NewInvocation>>,
              order |-> <<>>]
    /\ AmountIdleVars
    /\ DateIdle
    /\ ImportIdle

\* an invocation is called and runs to its first await or to its return
ParseFileStart ==
    /\ call.fn = "parseFile"
    /\ \E id \in DOMAIN ret.tasks :
           /\ ret.tasks[id].pc = "start"
           /\ ret' = Stepped(ret, id, started(call.runs[id], ret.tasks, id))
    /\ UNCHANGED <<call, amountVars, dateVars, importVars>>

\* the strict parse of an OFX body settles and the invocation goes on
StrictParseSettles ==
    /\ call.fn = "parseFile"
    /\ \E id \in DOMAIN ret.tasks :
           /\ ret.tasks[id].pc = "strict"
           /\ ret' = Stepped(ret, id, afterStrict(call.runs[id], ret.tasks, id))
    /\ UNCHANGED <<call, amountVars, dateVars, importVars>>

\* the parse of the repaired OFX body settles and the invocation returns
RepairedParseSettles ==
    /\ call.fn = "parseFile"
    /\ \E id \in DOMAIN ret.tasks :
           /\ ret.tasks[id].pc = "repaired"
           /\ ret' = Stepped(ret, id, afterRepaired(call.runs[id], ret.tasks, id))
    /\ UNCHANGED <<call, amountVars, dateVars, importVars>>

\* the parse of a CAMT document settles and the invocation returns
CamtParseSettles ==
    /\ call.fn = "parseFile"
    /\ \E id \in DOMAIN ret.tasks :
           /\ ret.tasks[id].pc = "camt"
           /\ ret' = Stepped(ret, id,
                             Finished(ret.tasks, id,
                                      parseFileCamt(call.runs[id].options,
                                                    call.runs[id].file)))
    /\ UNCHANGED <<call, amountVars, dateVars, importVars>>

NextPair ==
    \/ ParseFileStart
    \/ StrictParseSettles
    \/ RepairedParseSettles
    \/ CamtParseSettles

SpecPair == InitPair /\ [][NextPair]_vars

-----------------------------------------------------------------------------
(* Claims about the dispatcher and the import command *)

\* the path's text from its last '.', lowercased; empty without a '.'
RECURSIVE SuffixOf(_)
SuffixOf(path) ==
    IF path = <<>> THEN <<>>
    ELSE IF path[Len(path)] = "." THEN <<".">>
    ELSE IF SuffixOf(SubSeq(path, 1, Len(path) - 1)) = <<>> THEN <<>>
    ELSE SuffixOf(SubSeq(path, 1, Len(path) - 1)) \o <<LowerChar(path[Len(path)])>>

\* the file type the specification gives to a suffix
TypeOfSuffix(suffix) ==
    IF suffix \in {ExtCsv, ExtTsv} THEN "csv"
    ELSE IF suffix = ExtQif THEN "qif"
    ELSE IF suffix \in {ExtOfx, ExtQfx} THEN "ofx"
    ELSE IF suffix = ExtXml THEN "camt"
    ELSE "unknown"

\* parseFile has returned in this run
Parsed == parseResult # NoResult

\* reading the file or the reader of the path's type throws
ReaderFails ==
    \/ ~disk.readable
    \/ /\ TypeOfSuffix(SuffixOf(importPath)) = "csv"
       /\ \/ skipThrows(disk.lines, importOptions.csvSkipStart, importOptions.csvSkipEnd)
          \/ parseCsv(applyLineSkips(disk.lines, importOptions.csvSkipStart,
                                     importOptions.csvSkipEnd),
                      importOptions.csvHeader,
                      delimiterOf(parseOptions(importOptions), SuffixOf(importPath))).threw
    \/ TypeOfSuffix(SuffixOf(importPath)) = "qif" /\ qifToJson(disk.lines).threw
    \/ TypeOfSuffix(SuffixOf(importPath)) = "ofx" /\ ofxToJson(disk.xml).threw
    \/ TypeOfSuffix(SuffixOf(importPath)) = "camt" /\ camtToJson(disk.xml).threw

\* C1: whenever parseFile has returned for a path with a recognized
\* extension and the read or the reader threw, the result holds exactly one
\* error with a message and an internal detail, no transaction, and the
\* file type of the extension; the command is never ended by an exception
\* of parseFile (it goes on to look at the result).
C1_ReaderFailureIsOneError ==
    /\ cmd \in {"open", "reader"} => exitCode = 0
    /\ (Parsed /\ TypeOfSuffix(SuffixOf(importPath)) # "unknown" /\ ReaderFails)
          => /\ Len(parseResult.errors) = 1
             /\ parseResult.errors[1].message # ""
             /\ DOMAIN parseResult.errors[1] = {"message", "internal"}
             /\ parseResult.transactions = <<>>
             /\ parseResult.fileType = TypeOfSuffix(SuffixOf(importPath))

\* C1 witness: an OFX file was read, its reader threw after the parse, and
\* parseFile returned the one error
C1_Witness ==
    /\ Parsed
    /\ TypeOfSuffix(SuffixOf(importPath)) = "ofx"
    /\ disk.readable
    /\ ParsesStrict(disk.xml)
    /\ ofxToJson(disk.xml).threw
    /\ Len(parseResult.errors) = 1

\* a statement line whose amount and date both parse
GoodStmt(stmt) ==
    /\ parseOfxAmount(StringOrEmpty(stmt.TRNAMT)) # NULL
    /\ stmt.DTPOSTED # Absent
    /\ Len(stmt.DTPOSTED) >= 8
    /\ \A i \in 1..8 : stmt.DTPOSTED[i] \in Digits

\* an OFX/QFX file was parsed by parseFile without a throw
OfxParsed ==
    /\ Parsed
    /\ TypeOfSuffix(SuffixOf(importPath)) = "ofx"
    /\ ~ReaderFails

\* C2 as stated: for every OFX/QFX file that parses, parseFile returns
\* exactly as many transactions as the file has statement lines whose
\* amount and date parse (the malformed ones are omitted).
C2_BadRowOmittedAsStated ==
    OfxParsed =>
        Len(parseResult.transactions)
            = Len(SelectSeq(getStmtTransactions(disk.xml.tree), GoodStmt))

\* the rows of a CSV normalization that ran to its end
CsvNormalized ==
    /\ Parsed
    /\ parseResult.fileType = "csv"
    /\ parseResult.errors = <<>>
    /\ cmd \in {"validate", "insert", "done"}
    /\ ~normalizedResult.threw

\* the amount cell of a row under the mappings of the run has no number
AmountCellUnparsable(row) ==
    parseAmount(readCsvCell(row,
        csvMappingsFromOptions(importOptions,
                               detectCsvMappings(parseResult.transactions)).amount)) = NULL

\* C3 as stated: in a CSV normalization reading one amount column, each row
\* whose amount cell does not parse to a number is reported with
\* 'Transaction has no amount' and is not among the output transactions.
C3_NoAmountRowReportedAsStated ==
    (/\ CsvNormalized
     /\ ~splitModeOf(csvMappingsFromOptions(importOptions,
                        detectCsvMappings(parseResult.transactions))))
        => LET bad == SelectSeq(parseResult.transactions, AmountCellUnparsable)
           IN  /\ Len(SelectSeq(normalizedResult.errors,
                                LAMBDA e : e = "Transaction has no amount")) = Len(bad)
               /\ Len(normalizedResult.transactions)
                      <= Len(parseResult.transactions) - Len(bad)

\* C4: an insert has been called only in a run whose parse result and
\* normalization both hold no error; and in a run where either list holds
\* an error the command never reaches validation or the insert, nothing is
\* inserted, and the command ends with exit code 1.
C4_InsertOnlyWithoutErrors ==
    /\ insertCalls > 0 =>
          /\ Parsed
          /\ Len(parseResult.errors) = 0
          /\ ~normalizedResult.threw
          /\ Len(normalizedResult.errors) = 0
    /\ (Len(parseResult.errors) > 0 \/ Len(normalizedResult.errors) > 0) =>
          /\ insertCalls = 0
          /\ ledger = <<>>
          /\ cmd \in {"parsed", "done"}
          /\ cmd = "done" => exitCode = 1

\* C4 witness: a run that parsed without error, whose normalization
\* recorded a row error, ended with exit code 1 and without an insert
C4_Witness ==
    /\ Parsed
    /\ Len(parseResult.errors) = 0
    /\ Len(parseResult.transactions) > 1
    /\ Len(normalizedResult.errors) > 0
    /\ cmd = "done"
    /\ exitCode = 1
    /\ insertCalls = 0

\* C5: every transaction of a parseFile result of type qif, ofx or camt has
\* a date that is not null and an amount that is not null.
C5_DateAndAmountNotNull ==
    (Parsed /\ parseResult.fileType \in {"qif", "ofx", "camt"}) =>
        \A i \in 1..Len(parseResult.transactions) :
            /\ parseResult.transactions[i].date # Absent
            /\ parseResult.transactions[i].amount # NULL

\* C5 witness: a CAMT file with an entry that has no amount or no date was
\* parsed, and the transactions returned are fewer than the reader built
C5_Witness ==
    /\ Parsed
    /\ parseResult.fileType = "camt"
    /\ parseResult.errors = <<>>
    /\ parseResult.transactions # <<>>
    /\ Len(parseResult.transactions) < Len(camtLoop(disk.xml.entries))

\* the lines of a QIF text that the reader looks at
QifLines(lines) == SelectSeq(lines, LAMBDA l : l # <<>>)

\* a QIF text with a valid type header and only recognized detail codes
QifWellFormed(lines) ==
    /\ QifLines(lines) # <<>>
    /\ typeMatch(Trim(Head(QifLines(lines))))
    /\ \A i \in 2..Len(QifLines(lines)) :
           \/ Trim(QifLines(lines)[i]) = <<"^">>
           \/ /\ Trim(QifLines(lines)[i]) # <<>>
              /\ Trim(QifLines(lines)[i])[1] \in DetailCodes

\* the record so far as a <<date, amount>>: with a date line and an
\* amount line whose text parses, one element; else none
RecordKept(date, amount) ==
    IF date # Absent /\ amount # Absent /\ looselyParseAmount(amount) # NULL
    THEN <<[date |-> date, amount |-> looselyParseAmount(amount)]>>
    ELSE <<>>

\* the records of the lines, in file order, that have a date line and an
\* amount line whose text parses (the last such line of a record counts)
RECURSIVE QifExpected(_, _, _)
QifExpected(lines, date, amount) ==
    IF lines = <<>> THEN RecordKept(date, amount)
    ELSE IF Trim(Head(lines)) = <<"^">>
    THEN RecordKept(date, amount) \o QifExpected(Tail(lines), Absent, Absent)
    ELSE IF Trim(Head(lines))[1] = "D"
    THEN QifExpected(Tail(lines), Tail(Trim(Head(lines))), amount)
    ELSE IF Trim(Head(lines))[1] = "T"
    THEN QifExpected(Tail(lines), date, Tail(Trim(Head(lines))))
    ELSE QifExpected(Tail(lines), date, amount)

\* C6: for a readable QIF file with a valid type header and only recognized
\* detail codes, parseFile returns no error and, in file order, exactly the
\* records that have a date line and an amount line whose text the loose
\* amount parser reads, each with that date and that amount.
C6_QifRecordsFiltered ==
    (/\ Parsed
     /\ TypeOfSuffix(SuffixOf(importPath)) = "qif"
     /\ disk.readable
     /\ QifWellFormed(disk.lines))
        => /\ parseResult.errors = <<>>
           /\ parseResult.fileType = "qif"
           /\ [i \in 1..Len(parseResult.transactions) |->
                  [date |-> parseResult.transactions[i].date,
                   amount |-> parseResult.transactions[i].amount]]
                 = QifExpected(Tail(QifLines(disk.lines)), Absent, Absent)

\* C6 witness: a well-formed QIF file of three records, the middle one with
\* an amount that does not parse, gave the two others in their order
C6_Witness ==
    /\ Parsed
    /\ TypeOfSuffix(SuffixOf(importPath)) = "qif"
    /\ disk.readable
    /\ disk.lines = <<QifHeader>> \o QifBody(<<QifGood1, QifBadAmount, QifGood2>>, TRUE)
    /\ Len(parseResult.transactions) = 2
    /\ parseResult.transactions[1].amount = <<15, 1>>
    /\ parseResult.transactions[2].amount = <<-25, 1>>

\* C7: the file type of every parseFile result is the one of the path's
\* lowercased extension, whatever the file holds; for any other extension,
\* or none, the result is of type 'unknown' with exactly one error and no
\* transaction.
C7_TypeFromExtension ==
    Parsed =>
        /\ parseResult.fileType = TypeOfSuffix(SuffixOf(importPath))
        /\ TypeOfSuffix(SuffixOf(importPath)) = "unknown" =>
              /\ Len(parseResult.errors) = 1
              /\ parseResult.transactions = <<>>

\* C7 witness: a QIF text under a path ending in .CSV was read as CSV
C7_Witness ==
    /\ Parsed
    /\ Len(importPath) >= 4
    /\ SubSeq(importPath, Len(importPath) - 3, Len(importPath)) = <<".", "C", "S", "V">>
    /\ disk.readable
    /\ disk.lines # <<>>
    /\ Head(disk.lines) = QifHeader
    /\ parseResult.fileType = "csv"
    /\ parseResult.errors = <<>>

-----------------------------------------------------------------------------
(* Claims about the date normalizer *)

TwoDigitYearOrders == {"yy mm dd", "mm dd yy", "dd mm yy"}

\* C8 as stated: for every valid date d and each of the six field orders o,
\* d rendered in the shape of o (two-digit year for the yy orders) and
\* parsed with order o comes back as d.
C8_RoundTripAsStated ==
    dpc = "done" => dout = IsoDate(din.y, din.m, din.d)

\* C8 amended: the round trip returns d for the three yyyy orders, and for
\* the three yy orders when the year of d lies in 2000-2099 (a two-digit
\* year is expanded by prefixing "20").
C8_RoundTrip ==
    (dpc = "done" /\ (din.order \in TwoDigitYearOrders => din.y \in 2000..2099))
        => dout = IsoDate(din.y, din.m, din.d)

\* a leap day written without separators and with a two-digit year came back
C8_Witness ==
    /\ dpc = "done"
    /\ din.order = "dd mm yy"
    /\ din.sep = <<>>
    /\ din.y = 2024 /\ din.m = 2 /\ din.d = 29
    /\ dtext = <<"2", "9", "0", "2", "2", "4">>
    /\ dout = IsoDate(2024, 2, 29)

-----------------------------------------------------------------------------
(* Claims about the amount normalizer *)

Chars(s) == {s[i] : i \in 1..Len(s)}

\* the position of the last '.' or ',' of s, 0 when it has none
LastSeparator(s) ==
    LET at == {i \in 1..Len(s) : s[i] \in Separators}
    IN  IF at = {} THEN 0 ELSE CHOOSE i \in at : \A j \in at : j <= i

\* the rendered number is in plain notation and its fraction, if it has
\* one, has 1-2 or 4-9 digits
PlainRendering(str) ==
    /\ "e" \notin Chars(str)
    /\ LastSeparator(str) = 0 \/ Len(str) - LastSeparator(str) \in (1..2) \cup (4..9)

\* C9 as stated: parseLooseAmount(String(parseLooseAmount(x))) equals
\* parseLooseAmount(x) for every text x that parses to a non-null value.
C9_IdempotentAsStated ==
    (apc = "done" /\ aout.first # NULL) => aout.second = aout.first

\* C9 amended: for every text x that parses to a non-null value v whose
\* string String(v) is in plain decimal notation with no fraction or a
\* fraction of 1-2 or 4-9 digits, parsing String(v) gives v again.
C9_Idempotent ==
    (apc = "done" /\ aout.first # NULL /\ PlainRendering(aout.str))
        => aout.second = aout.first

\* a value with a two-digit fraction, from a text that was not already
\* its canonical string, has been parsed, rendered and parsed again
C9_Witness ==
    /\ apc = "done"
    /\ aout.first # NULL
    /\ aout.first[2] = 2
    /\ aout.str # text
    /\ PlainRendering(aout.str)
    /\ aout.second = aout.first

\* The texts C10 is stated over: already trimmed, not wrapped in
\* parentheses, and with no minus sign other than one in front of every
\* digit and left of the last separator.
PlainAmountText(s) ==
    /\ s # <<>>
    /\ ~IsSpace(s[1]) /\ ~IsSpace(s[Len(s)])
    /\ ~(s[1] = "(" /\ s[Len(s)] = ")")
    /\ Cardinality({i \in 1..Len(s) : s[i] \in {"-", UMinus}}) <= 1
    /\ \A i \in 1..Len(s) : s[i] \in {"-", UMinus} =>
          /\ \A j \in 1..(i - 1) : s[j] \notin Digits
          /\ i < LastSeparator(s) \/ LastSeparator(s) = 0

Negative(s) == \E i \in 1..Len(s) : s[i] \in {"-", UMinus}

\* the amount whose integer digits are whole and fraction digits are frac
DecimalOf(neg, whole, frac) ==
    IF whole \o frac = <<>> THEN NULL
    ELSE Norm((IF neg THEN -1 ELSE 1) * IntOf(whole \o frac), Len(frac))

\* what the text is worth when its last separator is taken as the decimal
\* point exactly if `qualifies`, and all separators are dropped otherwise
ReadWithDecimalPoint(s, qualifies) ==
    IF qualifies
    THEN DecimalOf(Negative(s),
                   DigitsIn(SubSeq(s, 1, LastSeparator(s) - 1)),
                   DigitsIn(From(s, LastSeparator(s))))
    ELSE DecimalOf(Negative(s), DigitsIn(s), <<>>)

\* C10 as stated: the decimal point is the last '.' or ',' that is followed
\* to the end of the string by 1-2 or 4-9 digits; when no separator
\* qualifies all separators are discarded and the digits read as an integer.
C10_DecimalPointAsStated ==
    (apc # "start" /\ PlainAmountText(text)) =>
        LET p == LastSeparator(text)
            tail == From(text, p)
            qualifies == /\ p > 0
                         /\ Len(tail) \in (1..2) \cup (4..9)
                         /\ \A i \in 1..Len(tail) : tail[i] \in Digits
        IN  aout.first = ReadWithDecimalPoint(text, qualifies)

\* C10 amended: the decimal point is the last '.' or ',' when 1-2 or 4-9
\* characters of any kind follow it to the end of the string; the digits
\* left of it are the integer part and the digits right of it the fraction.
\* When the last separator is followed by 0, 3 or more than 9 characters,
\* or there is none, all separators are discarded and the digits are read
\* as an integer-valued amount.
C10_DecimalPoint ==
    (apc # "start" /\ PlainAmountText(text)) =>
        LET p == LastSeparator(text)
            qualifies == p > 0 /\ Len(text) - p \in (1..2) \cup (4..9)
        IN  aout.first = ReadWithDecimalPoint(text, qualifies)

\* a text with two separators, the last followed by two digits, was read
\* with that last separator as its decimal point
C10_Witness ==
    /\ apc # "start"
    /\ PlainAmountText(text)
    /\ Cardinality({i \in 1..Len(text) : text[i] \in Separators}) = 2
    /\ Len(text) - LastSeparator(text) = 2
    /\ aout.first # NULL
    /\ aout.first[2] = 2

\* the text with every '.' replaced by ',' and every ',' by '.'
SeparatorsSwapped(s) ==
    [i \in 1..Len(s) |-> IF s[i] = "." THEN "," ELSE IF s[i] = "," THEN "." ELSE s[i]]

\* C30: for every text, looselyParseAmount gives the same result for the
\* text and for the text with each '.' replaced by ',' and each ',' by '.'.
C30_SeparatorsSymmetric ==
    apc # "start" => aout.first = looselyParseAmount(SeparatorsSwapped(text))

\* C30 witness: '1,234.56' was parsed to 1234.56, which is also what
\* '1.234,56' parses to
C30_Witness ==
    /\ apc # "start"
    /\ text = <<"1", ",", "2", "3", "4", ".", "5", "6">>
    /\ SeparatorsSwapped(text) = <<"1", ".", "2", "3", "4", ",", "5", "6">>
    /\ aout.first = <<123456, 2>>
    /\ looselyParseAmount(SeparatorsSwapped(text)) = <<123456, 2>>

-----------------------------------------------------------------------------
(* Claims about the QIF reader *)

\* the QIF reader has run on the file of this import
QifRead ==
    /\ Parsed
    /\ TypeOfSuffix(SuffixOf(importPath)) = "qif"
    /\ disk.readable

\* the lines after the header line
QifDetailLines == Tail(QifLines(disk.lines))

\* the number of '^' lines among the lines
CaretCount(lines) == Len(SelectSeq(lines, LAMBDA l : Trim(l) = <<"^">>))

\* the lines after the last '^' line
RECURSIVE TrailingPart(_)
TrailingPart(lines) ==
    IF lines = <<>> \/ Trim(lines[Len(lines)]) = <<"^">> THEN <<>>
    ELSE Append(TrailingPart(SubSeq(lines, 1, Len(lines) - 1)), lines[Len(lines)])

\* a line that populates a field of the transaction record: every detail
\* line but those of a split's category and description
PopulatesField(line) == Trim(line)[1] \notin {"S", "E"}

TrailingPopulated(lines) ==
    \E i \in 1..Len(TrailingPart(lines)) : PopulatesField(TrailingPart(lines)[i])

\* the date, amount and memo of a record with no line yet
NoLines == [date |-> Absent, amount |-> Absent, memo |-> Absent]

\* the date, amount and memo texts of the records of the lines, in file
\* order: one record per '^' line and one for the lines after the last '^'
RECURSIVE RecordsInOrder(_, _)
RecordsInOrder(lines, record) ==
    IF lines = <<>> THEN <<record>>
    ELSE IF Trim(Head(lines)) = <<"^">>
    THEN <<record>> \o RecordsInOrder(Tail(lines), NoLines)
    ELSE IF Trim(Head(lines))[1] = "D"
    THEN RecordsInOrder(Tail(lines), [record EXCEPT !.date = Tail(Trim(Head(lines)))])
    ELSE IF Trim(Head(lines))[1] = "T"
    THEN RecordsInOrder(Tail(lines), [record EXCEPT !.amount = Tail(Trim(Head(lines)))])
    ELSE IF Trim(Head(lines))[1] = "M"
    THEN RecordsInOrder(Tail(lines), [record EXCEPT !.memo = Tail(Trim(Head(lines)))])
    ELSE RecordsInOrder(Tail(lines), record)

\* the date, amount and memo of a transaction of the reader
LinesOf(tx) == [date |-> tx.date, amount |-> tx.amount, memo |-> tx.memo]

\* C11: for a QIF file with a valid type header and only recognized detail
\* codes, with N lines '^', the QIF reader returns N + 1 transactions when
\* the lines after the last '^' populate a field of the record, and N when
\* they do not; the transactions come in file order.
C11_TrailingRecordEmitted ==
    (QifRead /\ QifWellFormed(disk.lines))
        => /\ ~qifToJson(disk.lines).threw
           /\ Len(qifToJson(disk.lines).transactions)
                 = CaretCount(QifDetailLines)
                     + (IF TrailingPopulated(QifDetailLines) THEN 1 ELSE 0)
           /\ \A i \in 1..Len(qifToJson(disk.lines).transactions) :
                  LinesOf(qifToJson(disk.lines).transactions[i])
                      = RecordsInOrder(QifDetailLines, NoLines)[i]

\* C11 witness: two closed records and a trailing payee line gave three
\* transactions, the last one the trailing record
C11_Witness ==
    /\ QifRead
    /\ QifWellFormed(disk.lines)
    /\ CaretCount(QifDetailLines) = 2
    /\ TrailingPart(QifDetailLines) = <<<<"P", "y">>>>
    /\ Len(qifToJson(disk.lines).transactions) = 3
    /\ qifToJson(disk.lines).transactions[3].payee = <<"y">>

\* a line after the header whose first character is neither a detail code
\* nor '^'
UnknownCodeLine(line) ==
    /\ Trim(line) # <<>>
    /\ Trim(line)[1] \notin {"D", "T", "N", "M", "A", "P", "L", "C", "S", "E", "$", "^"}

\* C12: when a line after a valid header starts with a character that is
\* neither a detail code nor '^', the QIF reader throws 'Unknown Detail
\* Code', and the result of parseFile has no transaction and exactly one
\* error, whatever records come before the line.
C12_UnknownCodeIsFatal ==
    (/\ QifRead
     /\ QifLines(disk.lines) # <<>>
     /\ typeMatch(Trim(Head(QifLines(disk.lines))))
     /\ \E i \in 1..Len(QifDetailLines) : UnknownCodeLine(QifDetailLines[i]))
        => /\ qifToJson(disk.lines).threw
           /\ qifToJson(disk.lines).message = "Unknown Detail Code"
           /\ parseResult.transactions = <<>>
           /\ Len(parseResult.errors) = 1
           /\ parseResult.errors[1].internal = "Unknown Detail Code"

\* C12 witness: a file with a complete valid record before the line Z1234
\* was parsed to no transaction and one error
C12_Witness ==
    /\ QifRead
    /\ Len(QifLines(disk.lines)) >= 6
    /\ QifDetailLines[1] = <<"D", "0", "7", "/", "1", "5", "/", "2", "0", "2", "5">>
    /\ Trim(QifDetailLines[4]) = <<"^">>
    /\ QifDetailLines[5] = <<"Z", "1", "2", "3", "4">>
    /\ parseResult.transactions = <<>>
    /\ Len(parseResult.errors) = 1

\* the line, trimmed, is "!Type:" and a value
HeaderShape(line) == StartsWith(Trim(line), <<"!", "T", "y", "p", "e", ":">>)

\* the line, trimmed, holds "!Type:" at some place with no '$' after it
HeaderAccepted(line) ==
    \E i \in 1..Len(Trim(line)) :
        /\ i + 5 <= Len(Trim(line))
        /\ SubSeq(Trim(line), i, i + 5) = <<"!", "T", "y", "p", "e", ":">>
        /\ \A j \in (i + 6)..Len(Trim(line)) : Trim(line)[j] # "$"

HeaderError ==
    /\ qifToJson(disk.lines).threw
    /\ qifToJson(disk.lines).message = "File does not appear to be a valid qif file"

\* the line, trimmed, holds "!Type:" at some place
HeaderTagged(line) ==
    \E i \in 1..Len(Trim(line)) :
        StartsWith(From(Trim(line), i - 1), <<"!", "T", "y", "p", "e", ":">>)

\* C13 as stated: the QIF reader throws the header error when the first
\* non-empty line holds no "!Type:", and raises no header error when that
\* line is "!Type:" followed by a value.
C13_HeaderErrorAsStated ==
    QifRead =>
        /\ (\/ QifLines(disk.lines) = <<>>
            \/ ~HeaderTagged(Head(QifLines(disk.lines)))) => HeaderError
        /\ (/\ QifLines(disk.lines) # <<>>
            /\ HeaderShape(Head(QifLines(disk.lines)))) => ~HeaderError

\* C13: the QIF reader throws the header error exactly when there is no
\* non-empty line or the first one, trimmed, does not hold "!Type:" followed
\* to its end by characters other than '$'; with such a line the reader goes
\* on with the lines after it, so the only other throw is that of an unknown
\* detail code.
C13_HeaderError ==
    QifRead =>
        /\ HeaderError <=> (\/ QifLines(disk.lines) = <<>>
                            \/ ~HeaderAccepted(Head(QifLines(disk.lines))))
        /\ (~HeaderError /\ qifToJson(disk.lines).threw)
              => /\ qifToJson(disk.lines).message = "Unknown Detail Code"
                 /\ ~QifWellFormed(disk.lines)
        /\ (~HeaderError /\ QifDetailLines = <<>>)
              => qifToJson(disk.lines) = Returned(<<>>)

\* C13 witness: a file whose first line is "!Type:Bank$" was rejected with
\* the header error
C13_Witness ==
    /\ QifRead
    /\ QifLines(disk.lines) # <<>>
    /\ HeaderShape(Head(QifLines(disk.lines)))
    /\ ~HeaderAccepted(Head(QifLines(disk.lines)))
    /\ HeaderError
    /\ Len(parseResult.errors) = 1

-----------------------------------------------------------------------------
(* Claims about the amount fields of a CSV row *)

\* parseAmountFields has returned
Composed == call.fn = "parseAmountFields" /\ ret.done

\* neither the flip nor a multiplier other than '1' is asked for
Unscaled == ~call.flipAmount /\ call.multiplierAmount = <<"1">>

\* the number a cell parses to, 0 when the cell is missing or does not parse
CellNumber(cell) ==
    IF cell = Absent THEN <<0, 0>>
    ELSE IF looselyParseAmount(cell) = NULL THEN <<0, 0>>
    ELSE looselyParseAmount(cell)

Magnitude(v) == IF v[1] < 0 THEN <<-v[1], v[2]>> ELSE v
Minus(v) == <<-v[1], v[2]>>

\* C14: in split mode without in/out mode (no flip, multiplier '1') the
\* outflow leg is minus the magnitude of the parsed outflow cell, 0 when
\* the cell is missing or does not parse; the inflow leg is the magnitude of
\* the parsed inflow cell when the outflow leg is 0, and 0 otherwise; the
\* amount is the outflow leg when it is not 0, else the inflow leg.
C14_SplitLegs ==
    (Composed /\ call.splitMode /\ ~call.inOutMode /\ Unscaled)
        => /\ ret.value.outflow = Minus(Magnitude(CellNumber(call.transaction.outflow)))
           /\ ret.value.inflow
                 = (IF CellNumber(call.transaction.outflow)[1] # 0 THEN <<0, 0>>
                    ELSE Magnitude(CellNumber(call.transaction.inflow)))
           /\ ret.value.amount
                 = (IF ret.value.outflow[1] # 0 THEN ret.value.outflow
                    ELSE ret.value.inflow)
           /\ (/\ call.transaction.outflow = <<"5", "0", ".", "0", "0">>
               /\ call.transaction.inflow = <<>>)
                 => ret.value = [amount |-> <<-50, 0>>, outflow |-> <<-50, 0>>,
                                 inflow |-> <<0, 0>>]

\* C14 witness: with both cells populated the outflow cell gave the amount
C14_Witness ==
    /\ Composed /\ call.splitMode /\ ~call.inOutMode /\ Unscaled
    /\ call.transaction.outflow = <<"-", "7">>
    /\ call.transaction.inflow = <<"3", "0">>
    /\ ret.value = [amount |-> <<-7, 0>>, outflow |-> <<-7, 0>>, inflow |-> <<0, 0>>]

\* the string of the marker cell
MarkerText(cell) == IF cell = Absent THEN <<>> ELSE cell

\* C15: in in/out mode (no flip, multiplier '1') the amount is the magnitude
\* of the parsed amount cell, negative when the marker cell's string equals
\* the out value and positive otherwise, whatever the sign of the cell; when
\* the legs are returned, the chosen leg holds the amount and the other is 0.
C15_InOutSign ==
    (Composed /\ call.inOutMode /\ Unscaled)
        => /\ ret.value.amount
                 = (IF MarkerText(call.transaction.inOut) = call.outValue
                    THEN Minus(Magnitude(CellNumber(call.transaction.amount)))
                    ELSE Magnitude(CellNumber(call.transaction.amount)))
           /\ call.splitMode =>
                 IF MarkerText(call.transaction.inOut) = call.outValue
                 THEN /\ ret.value.outflow = ret.value.amount
                      /\ ret.value.inflow = <<0, 0>>
                 ELSE /\ ret.value.inflow = ret.value.amount
                      /\ ret.value.outflow = <<0, 0>>

\* C15 witness: a negative amount with a marker other than the out value
\* came out positive
C15_Witness ==
    /\ Composed /\ call.inOutMode /\ Unscaled
    /\ call.transaction.amount = <<"-", "2", "0">>
    /\ call.transaction.inOut = <<"i", "n">>
    /\ call.outValue = <<"o", "u", "t">>
    /\ ret.value.amount = <<20, 0>>

\* the record returned for the same arguments without the flip
Unflipped ==
    parseAmountFields(call.transaction, call.splitMode, call.inOutMode,
                      call.outValue, FALSE, call.multiplierAmount)

\* C16: with the flip, the amount returned is the negation of the amount
\* returned for the same arguments without it, in every mode and for every
\* cell; the legs returned are exchanged and negated, which for the
\* multiplier '1' makes the inflow the magnitude of the old outflow and the
\* outflow minus the magnitude of the old inflow.
C16_FlipNegates ==
    (Composed /\ call.flipAmount)
        => /\ ret.value.amount = Minus(Unflipped.amount)
           /\ call.splitMode =>
                 /\ ret.value.inflow = Minus(Unflipped.outflow)
                 /\ ret.value.outflow = Minus(Unflipped.inflow)
                 /\ call.multiplierAmount = <<"1">> =>
                       /\ ret.value.inflow = Magnitude(Unflipped.outflow)
                       /\ ret.value.outflow = Minus(Magnitude(Unflipped.inflow))

\* C16 witness: a flipped outflow of 50 in split mode came out as +50
C16_Witness ==
    /\ Composed /\ call.flipAmount /\ call.splitMode /\ ~call.inOutMode
    /\ call.multiplierAmount = <<"1">>
    /\ call.transaction.outflow = <<"5", "0", ".", "0", "0">>
    /\ ret.value = [amount |-> <<50, 0>>, outflow |-> <<0, 0>>, inflow |-> <<50, 0>>]

\* the record returned for the same arguments with the multiplier text '1'
WithMultiplierOne ==
    parseAmountFields(call.transaction, call.splitMode, call.inOutMode,
                      call.outValue, call.flipAmount, <<"1">>)

\* C17 as stated: for every multiplier text that parses to a number m, the
\* amount returned is m times the amount returned with the multiplier text
\* '1'; for a text that does not parse it is that amount.
C17_MultiplierScalesAsStated ==
    Composed =>
        ret.value.amount
            = (IF ParseFloat(call.multiplierAmount) = NaN THEN WithMultiplierOne.amount
               ELSE Times(ParseFloat(call.multiplierAmount), WithMultiplierOne.amount))

\* the legs after the initial assignment, after the in/out reassignment,
\* after the sign flip and after the scaling
LegsAssigned == amountFieldsValue(call.transaction, call.splitMode, call.inOutMode)

LegsInOut == amountFieldsInOut(LegsAssigned, call.transaction, call.inOutMode, call.outValue)

LegsFlipped == amountFieldsFlip(LegsInOut, call.flipAmount)

LegsScaled ==
    [outflow |-> Times(LegsFlipped.outflow, orOne(ParseFloat(call.multiplierAmount))),
     inflow |-> Times(LegsFlipped.inflow, orOne(ParseFloat(call.multiplierAmount)))]

AtMostOneLeg(value) == value.outflow[1] = 0 \/ value.inflow[1] = 0

NoLeg(value) == value.outflow[1] = 0 /\ value.inflow[1] = 0

\* the cells the legs are taken from all give 0 (a zero amount, a missing
\* cell or a text that does not parse)
ZeroInput ==
    IF call.splitMode /\ ~call.inOutMode
    THEN /\ CellNumber(call.transaction.outflow)[1] = 0
         /\ CellNumber(call.transaction.inflow)[1] = 0
    ELSE CellNumber(call.transaction.amount)[1] = 0

\* C28: for every cell, mode and decimal multiplier text, after the initial
\* assignment, the in/out reassignment, the sign flip and the scaling at
\* most one of the outflow and inflow legs is not 0, and both are 0 only
\* when the cells give 0; the record returned holds the scaled legs in split
\* mode, and its amount is the leg that is not 0.
C28_AtMostOneLeg ==
    Composed
        => /\ AtMostOneLeg(LegsAssigned) /\ (NoLeg(LegsAssigned) => ZeroInput)
           /\ AtMostOneLeg(LegsInOut) /\ (NoLeg(LegsInOut) => ZeroInput)
           /\ AtMostOneLeg(LegsFlipped) /\ (NoLeg(LegsFlipped) => ZeroInput)
           /\ AtMostOneLeg(LegsScaled) /\ (NoLeg(LegsScaled) => ZeroInput)
           /\ call.splitMode =>
                 /\ ret.value.outflow = LegsScaled.outflow
                 /\ ret.value.inflow = LegsScaled.inflow
           /\ ret.value.amount[1] = 0 <=> NoLeg(LegsScaled)
           /\ ret.value.amount \in {LegsScaled.outflow, LegsScaled.inflow}

\* C28 witness: in split mode with both cells populated ('50.00' out, '30'
\* in), flipped and scaled by -2, the record returned has the outflow leg 0
\* and the inflow leg -100
C28_Witness ==
    /\ Composed
    /\ call.splitMode /\ ~call.inOutMode /\ call.flipAmount
    /\ call.multiplierAmount = <<"-", "2">>
    /\ call.transaction.outflow = <<"5", "0", ".", "0", "0">>
    /\ call.transaction.inflow = <<"3", "0">>
    /\ ret.value.outflow[1] = 0
    /\ ret.value.inflow = <<-100, 0>>

-----------------------------------------------------------------------------
(* Claims about the column detection and the line skips *)

\* detectCsvMappings has returned
Detected == call.fn = "detectCsvMappings" /\ ret.done

\* the columns of a record in the order of the file, each a <<name, cell>>:
\* named by their position without a header; under a header a name that
\* comes twice is one column, at its first place with its last cell
RECURSIVE headedColumns(_, _, _)
headedColumns(header, fields, columns) ==
    IF header = <<>> \/ fields = <<>> THEN columns
    ELSE headedColumns(Tail(header), Tail(fields),
            IF \E i \in 1..Len(columns) : columns[i][1] = Head(header)
            THEN [i \in 1..Len(columns) |->
                     IF columns[i][1] = Head(header) THEN <<Head(header), Head(fields)>>
                     ELSE columns[i]]
            ELSE Append(columns, <<Head(header), Head(fields)>>))

columnsInFileOrder(hasHeaderRow, header, fields) ==
    IF hasHeaderRow THEN headedColumns(header, fields, <<>>)
    ELSE [i \in 1..Len(fields) |-> <<DigitsOf(i - 1), fields[i]>>]

\* C18 as stated: each role is given the first column, in the column order
\* of the first row, whose name or first-row cell satisfies the role's
\* test, or null; and the rows after the first do not change the result.
C18_FirstColumnInOrderAsStated ==
    Detected =>
        /\ ret.value
              = (IF call.records = <<>> THEN NoMappings
                 ELSE mappingsOf(columnsInFileOrder(call.hasHeaderRow, call.header,
                                                    call.records[1])))
        /\ call.records # <<>> =>
              ret.value = detectCsvMappings(sheetRows(call.hasHeaderRow, call.header,
                                                      <<call.records[1]>>))

\* applyLineSkips has returned or thrown
Skipped == call.fn = "applyLineSkips" /\ ret.done

\* the lines of a text held as its split: the element after a final line
\* break is not a line
FileLines(split) ==
    IF split # <<>> /\ split[Len(split)] = <<>> THEN SubSeq(split, 1, Len(split) - 1)
    ELSE split

\* the lines of the file of the call without the first skipStartLines and
\* the last skipEndLines
LinesLeft ==
    SubSeq(FileLines(call.lines), call.skipStartLines + 1,
           Len(FileLines(call.lines)) - call.skipEndLines)

\* C19 as stated: when a skip is asked for, applyLineSkips throws exactly
\* when skipStart + skipEnd is at least the number of lines of the file, and
\* otherwise returns the lines of the file without the first skipStart and
\* the last skipEnd, in their order (with or without the final line break
\* of the file).
C19_SkipsRemoveLinesAsStated ==
    (Skipped /\ call.skipStartLines + call.skipEndLines > 0)
        => /\ ret.value.threw
                 <=> call.skipStartLines + call.skipEndLines >= Len(FileLines(call.lines))
           /\ ~ret.value.threw =>
                 \/ ret.value.transactions = LinesLeft
                 \/ /\ call.lines[Len(call.lines)] = <<>>
                    /\ ret.value.transactions = Append(LinesLeft, <<>>)

-----------------------------------------------------------------------------
(* Claims about the CAMT reader *)

\* the CAMT reader has run on the document of this import
CamtRead ==
    /\ Parsed
    /\ TypeOfSuffix(SuffixOf(importPath)) = "camt"
    /\ disk.readable
    /\ ParsesStrict(disk.xml)

\* the date and the amount of a transaction
DateAmount(tx) == [date |-> tx.date, amount |-> tx.amount]

DatesAndAmounts(transactions) ==
    [i \in 1..Len(transactions) |-> DateAmount(transactions[i])]

\* the amount of a sub-record: the number of its Amt, negated for a debit
\* entry; null when it has no Amt text or the text is not a number
SubAmount(entry, details) ==
    IF details.Amt = Absent THEN NULL
    ELSE IF NumberOf(details.Amt) = NaN THEN NULL
    ELSE IF entry.CdtDbtInd = <<"D", "B", "I", "T">> THEN Negated(NumberOf(details.Amt))
    ELSE NumberOf(details.Amt)

\* one record per sub-record of an array TxDtls: the entry's date and the
\* sub-record's amount
PerSubRecord(entry) ==
    [i \in 1..Len(entry.TxDtls.subs) |->
        [date |-> entryDate(entry), amount |-> SubAmount(entry, entry.TxDtls.subs[i])]]

HasDateAndAmount(item) == item.date # Absent /\ item.amount # NULL

\* the dates and amounts of a document: an array entry gives what the
\* operator given says of it, every other entry the one transaction the
\* reader keeps of it
RECURSIVE DocumentAsStated(_)
DocumentAsStated(entries) ==
    IF entries = <<>> THEN <<>>
    ELSE (IF Head(entries).TxDtls.shape = "array" THEN PerSubRecord(Head(entries))
          ELSE SelectSeq(<<DateAmount(entryTransaction(Head(entries)))>>, HasDateAndAmount))
            \o DocumentAsStated(Tail(entries))

RECURSIVE DocumentKept(_)
DocumentKept(entries) ==
    IF entries = <<>> THEN <<>>
    ELSE (IF Head(entries).TxDtls.shape = "array"
          THEN SelectSeq(PerSubRecord(Head(entries)), HasDateAndAmount)
          ELSE SelectSeq(<<DateAmount(entryTransaction(Head(entries)))>>, HasDateAndAmount))
            \o DocumentKept(Tail(entries))

\* the party whose name the reader looks up is missing from the RltdPties
\* of a sub-record of the entry
PartyMissing(entry) ==
    \E i \in 1..Len(entry.TxDtls.subs) :
        /\ entry.TxDtls.subs[i].RltdPties.present
        /\ IF entry.CdtDbtInd = <<"D", "B", "I", "T">>
           THEN ~entry.TxDtls.subs[i].RltdPties.Cdtr.present
           ELSE ~entry.TxDtls.subs[i].RltdPties.Dbtr.present

\* the reader throws on the document
DocumentThrows(entries) ==
    \E i \in 1..Len(entries) : PartyMissing(entries[i]) \/ entryDateThrows(entries[i])

HasBatch(entries) == \E i \in 1..Len(entries) : entries[i].TxDtls.shape = "array"

\* C20 as stated: a CAMT document with an entry whose TxDtls is an array
\* gives, for that entry, exactly one transaction per sub-record, with the
\* entry's date and the sub-record's amount, negated for a DBIT entry.
C20_OnePerSubRecordAsStated ==
    (CamtRead /\ HasBatch(disk.xml.entries) /\ parseResult.errors = <<>>)
        => DatesAndAmounts(parseResult.transactions) = DocumentAsStated(disk.xml.entries)

\* C20: a CAMT document with an entry whose TxDtls is an array gives, for
\* that entry, one transaction per sub-record whose Amt is a number, in
\* order, when the entry has a date, and none when it has no date; each has
\* the entry's date and the sub-record's amount, negated exactly for a DBIT
\* entry.  When a sub-record has RltdPties without the party looked up, or
\* a date element is a bare text, the reader throws and parseFile returns
\* no transaction and one error.
C20_OnePerSubRecordWithAmount ==
    (CamtRead /\ HasBatch(disk.xml.entries))
        => IF DocumentThrows(disk.xml.entries)
           THEN parseResult.transactions = <<>> /\ Len(parseResult.errors) = 1
           ELSE /\ parseResult.errors = <<>>
                /\ DatesAndAmounts(parseResult.transactions)
                      = DocumentKept(disk.xml.entries)

\* C20 witness: a document of one DBIT entry with three sub-records of
\* amounts 1.50, 2 and 3 gave three transactions of amounts -1.5, -2, -3
\* with the entry's date
C20_Witness ==
    /\ CamtRead
    /\ disk.xml.entries = <<EntryBatch3>>
    /\ Len(parseResult.transactions) = 3
    /\ \A i \in 1..3 : parseResult.transactions[i].date = EntryBatch3.ValDt.value
    /\ parseResult.transactions[1].amount = Negated(NumberOf(<<"1", ".", "5", "0">>))
    /\ parseResult.transactions[2].amount = Negated(NumberOf(<<"2">>))
    /\ parseResult.transactions[3].amount = Negated(NumberOf(<<"3">>))

\* camtToJson has returned or thrown on a document of one entry with a
\* single TxDtls
SingleRead ==
    /\ call.fn = "camtToJson"
    /\ ret.done
    /\ call.body.entries[1].TxDtls.shape = "single"

\* the entry and the TxDtls of the call
TheEntry == call.body.entries[1]
TheDetails == call.body.entries[1].TxDtls.subs[1]

\* the party whose name is the payee: the creditor of a debit entry, the
\* debtor otherwise
TheParty ==
    IF TheEntry.CdtDbtInd = <<"D", "B", "I", "T">> THEN TheDetails.RltdPties.Cdtr
    ELSE TheDetails.RltdPties.Dbtr

\* a text that is there and not empty
Given(value) == value # Absent /\ value # <<>>

\* the name of the related party, when there is one
PartyName == IF TheDetails.RltdPties.present THEN TheParty.Nm ELSE Absent

\* the payee: the related party's name, else the additional entry info
PayeeStated ==
    IF Given(PartyName) THEN PartyName
    ELSE IF Given(TheEntry.AddtlNtryInf) THEN TheEntry.AddtlNtryInf
    ELSE PartyName

\* the remittance text: the Ustrd lines joined by a space
RemittanceText ==
    IF ~TheDetails.RmtInf.present \/ TheDetails.RmtInf.Ustrd = <<>> THEN Absent
    ELSE JoinWith(TheDetails.RmtInf.Ustrd, <<" ">>)

\* the notes as the statement gives them: the additional entry info when the
\* related party gave the payee and the two differ; else the remittance
\* text; else the entry reference when neither payee nor notes is there
NotesStated ==
    IF Given(PartyName) /\ Given(TheEntry.AddtlNtryInf) /\ TheEntry.AddtlNtryInf # PartyName
    THEN TheEntry.AddtlNtryInf
    ELSE IF Given(RemittanceText) THEN RemittanceText
    ELSE IF ~Given(PayeeStated) /\ Given(TheEntry.NtryRef) THEN TheEntry.NtryRef
    ELSE RemittanceText

\* the notes as the reader resolves them: the remittance text; without one,
\* the additional entry info when it differs from the payee; without payee
\* and notes, the entry reference
NotesResolved ==
    IF Given(RemittanceText) THEN RemittanceText
    ELSE IF Given(TheEntry.AddtlNtryInf) /\ TheEntry.AddtlNtryInf # PayeeStated
    THEN TheEntry.AddtlNtryInf
    ELSE IF ~Given(PayeeStated) /\ Given(TheEntry.NtryRef) THEN TheEntry.NtryRef
    ELSE RemittanceText

\* notes cleared when they are a text contained in the payee
Deduplicated(notes, payee) ==
    IF Given(payee) /\ Given(notes) /\ Includes(payee, notes) THEN Absent ELSE notes

\* the looked-up party is missing from a RltdPties that is there
TheReaderThrows == TheDetails.RltdPties.present /\ ~TheParty.present

\* C21 as stated: a single-detail entry gives exactly one transaction; its
\* payee is the related party's name if there is one, else the additional
\* entry info; the additional entry info is the notes when the related party
\* gave the payee and the two differ; the entry reference is the notes only
\* when neither payee nor notes was resolved (notes contained in the payee
\* may be cleared).
C21_SingleDetailResolutionAsStated ==
    (SingleRead /\ ~ret.value.threw)
        => /\ Len(ret.value.transactions) = 1
           /\ ret.value.transactions[1].payee_name = PayeeStated
           /\ ret.value.transactions[1].notes
                 \in {NotesStated, Deduplicated(NotesStated, PayeeStated)}

\* C21: a single-detail entry with a date and a numeric amount gives exactly
\* one transaction, and an entry without a numeric amount none; the payee is
\* the related party's name if there is one, else the additional entry info;
\* the notes are the remittance text if there is one, else the additional
\* entry info when it differs from the payee, else the entry reference when
\* neither payee nor notes was resolved, and are cleared when contained in
\* the payee.  When RltdPties lacks the party looked up the reader throws.
C21_SingleDetailResolution ==
    SingleRead
        => IF TheReaderThrows THEN ret.value.threw
           ELSE /\ ~ret.value.threw
                /\ Len(ret.value.transactions)
                      = (IF TheEntry.Amt = Absent THEN 0 ELSE 1)
                /\ \A i \in 1..Len(ret.value.transactions) :
                       /\ ret.value.transactions[i].payee_name = PayeeStated
                       /\ ret.value.transactions[i].notes
                             = Deduplicated(NotesResolved, PayeeStated)

\* C21 witness: a debit entry with creditor 'shop ab', additional entry info
\* 'info', no remittance text and a reference gave one transaction with
\* payee 'shop ab' and notes 'info'
C21_Witness ==
    /\ SingleRead
    /\ ~ret.value.threw
    /\ TheEntry.CdtDbtInd = <<"D", "B", "I", "T">>
    /\ TheDetails.RltdPties.present
    /\ ~TheDetails.RmtInf.present
    /\ TheEntry.AddtlNtryInf = <<"i", "n", "f", "o">>
    /\ TheEntry.NtryRef # Absent
    /\ Len(ret.value.transactions) = 1
    /\ ret.value.transactions[1].payee_name = <<"s", "h", "o", "p", " ", "a", "b">>
    /\ ret.value.transactions[1].notes = <<"i", "n", "f", "o">>

\* C22 as stated: no transaction of a single-detail entry has notes that
\* are not null and are contained in its payee.
C22_NotesNotInPayeeAsStated ==
    (SingleRead /\ ~ret.value.threw)
        => \A i \in 1..Len(ret.value.transactions) :
               (/\ ret.value.transactions[i].notes # Absent
                /\ ret.value.transactions[i].payee_name # Absent)
                   => ~Includes(ret.value.transactions[i].payee_name,
                                ret.value.transactions[i].notes)

\* C22: no transaction of a single-detail entry has notes that are a
\* non-empty text contained in its payee: resolved notes that are non-empty
\* and identical to, or a part of, the payee are emitted as null.  Notes
\* that are the empty text (an empty Ustrd) stay the empty text.
C22_NotesNotInPayee ==
    (SingleRead /\ ~ret.value.threw)
        => \A i \in 1..Len(ret.value.transactions) :
               /\ (/\ Given(ret.value.transactions[i].notes)
                   /\ Given(ret.value.transactions[i].payee_name))
                      => ~Includes(ret.value.transactions[i].payee_name,
                                   ret.value.transactions[i].notes)
               /\ (Given(NotesResolved) /\ Given(PayeeStated)
                      /\ Includes(PayeeStated, NotesResolved))
                      => ret.value.transactions[i].notes = Absent

\* C22 witness: the remittance text 'ab' under the payee 'shop ab' was
\* emitted as null notes
C22_Witness ==
    /\ SingleRead
    /\ ~ret.value.threw
    /\ RemittanceText = <<"a", "b">>
    /\ Len(ret.value.transactions) = 1
    /\ ret.value.transactions[1].payee_name = <<"s", "h", "o", "p", " ", "a", "b">>
    /\ ret.value.transactions[1].notes = Absent

-----------------------------------------------------------------------------
(* Claims about the split lines of a QIF record *)

\* qifToJson has returned on a text of split lines
SplitRead == call.fn = "qifToJson" /\ ret.done /\ ~ret.value.threw

\* the lines of the call after the header line
SplitLines == Tail(call.lines)

\* the lines of each record, in file order: a record ends at a '^' line,
\* and the lines after the last '^' are the last record
RECURSIVE RecordsOf(_, _)
RecordsOf(lines, record) ==
    IF lines = <<>> THEN <<record>>
    ELSE IF Head(lines) = <<"^">> THEN <<record>> \o RecordsOf(Tail(lines), <<>>)
    ELSE RecordsOf(Tail(lines), Append(record, Head(lines)))

\* the number of '$' lines among the lines
DollarCount(lines) == Len(SelectSeq(lines, LAMBDA l : l[1] = "$"))

\* the division a '$' line closes, from the latest S line and the latest E
\* line (Absent when there was none)
DivisionOfLatest(latestS, latestE, dollar) ==
    [category |-> IF latestS = Absent THEN Absent ELSE SplitOn(From(latestS, 1), ":")[1],
     subcategory |-> IF latestS = Absent THEN Absent
                     ELSE IF Len(SplitOn(From(latestS, 1), ":")) >= 2
                     THEN SplitOn(From(latestS, 1), ":")[2]
                     ELSE Absent,
     description |-> IF latestE = Absent THEN Absent ELSE From(latestE, 1),
     amount |-> ParseFloat(From(dollar, 1))]

\* the division lists of the records, in file order: each '$' line appends
\* the division of the latest S and E lines read since the '$' line before
RECURSIVE DivisionsStated(_, _, _, _)
DivisionsStated(lines, latestS, latestE, current) ==
    IF lines = <<>> THEN <<current>>
    ELSE IF Head(lines) = <<"^">>
    THEN <<current>> \o DivisionsStated(Tail(lines), latestS, latestE, <<>>)
    ELSE IF Head(lines)[1] = "S"
    THEN DivisionsStated(Tail(lines), Head(lines), latestE, current)
    ELSE IF Head(lines)[1] = "E"
    THEN DivisionsStated(Tail(lines), latestS, Head(lines), current)
    ELSE IF Head(lines)[1] = "$"
    THEN DivisionsStated(Tail(lines), Absent, Absent,
                         Append(current, DivisionOfLatest(latestS, latestE, Head(lines))))
    ELSE DivisionsStated(Tail(lines), latestS, latestE, current)

\* C27 as stated: the division list of every transaction has one entry per
\* '$' line of its record, in order, each holding the category and
\* subcategory of the latest S line, the description of the latest E line
\* and the amount of the '$' line, the accumulator being reset after
\* each '$' line.
C27_DivisionPerDollarLineAsStated ==
    SplitRead
        => \A i \in 1..Len(ret.value.transactions) :
               /\ Len(ret.value.transactions[i].division)
                     = DollarCount(RecordsOf(SplitLines, <<>>)[i])
               /\ ret.value.transactions[i].division
                     = DivisionsStated(SplitLines, Absent, Absent, <<>>)[i]

\* the S lines and the E lines of a record
CategoriesSetIn(record) ==
    {SplitOn(From(record[j], 1), ":")[1] : j \in {k \in 1..Len(record) : record[k][1] = "S"}}

SubcategoriesSetIn(record) ==
    {SplitOn(From(record[j], 1), ":")[2] :
        j \in {k \in 1..Len(record) :
                  record[k][1] = "S" /\ Len(SplitOn(From(record[k], 1), ":")) >= 2}}

DescriptionsSetIn(record) ==
    {From(record[j], 1) : j \in {k \in 1..Len(record) : record[k][1] = "E"}}

\* C29 as stated: every division of a transaction holds only a category, a
\* subcategory and a description set by S and E lines of that transaction's
\* own record.
C29_SplitStateStaysInRecordAsStated ==
    SplitRead
        => \A i \in 1..Len(ret.value.transactions) :
               \A j \in 1..Len(ret.value.transactions[i].division) :
                   /\ ret.value.transactions[i].division[j].category
                         \in {Absent} \cup CategoriesSetIn(RecordsOf(SplitLines, <<>>)[i])
                   /\ ret.value.transactions[i].division[j].subcategory
                         \in {Absent} \cup SubcategoriesSetIn(RecordsOf(SplitLines, <<>>)[i])
                   /\ ret.value.transactions[i].division[j].description
                         \in {Absent} \cup DescriptionsSetIn(RecordsOf(SplitLines, <<>>)[i])

-----------------------------------------------------------------------------
(* Claims about the OFX header block and the SGML repair *)

\* the header block has been read
HeadersRead == call.fn = "ofxHeaders" /\ ret.done

\* the place of the first colon of a line, 0 without one
FirstColon(line) == FirstIndex(line, ":")

\* the value the map holds under a key
HeaderValue(key) ==
    LET at == {i \in 1..Len(ret.value) : ret.value[i][1] = key}
    IN  IF at = {} THEN Absent ELSE ret.value[CHOOSE i \in at : TRUE][2]

\* C25 as stated: for every header line K:V, the last one with its key, the
\* map holds under K the whole of the line after its first colon.
C25_HeaderSplitOnFirstColonAsStated ==
    HeadersRead
        => \A i \in 1..Len(call.lines) :
               (/\ FirstColon(call.lines[i]) > 0
                /\ \A j \in (i + 1)..Len(call.lines) :
                       SplitOn(call.lines[j], ":")[1] # SplitOn(call.lines[i], ":")[1])
                   => HeaderValue(SubSeq(call.lines[i], 1, FirstColon(call.lines[i]) - 1))
                         = From(call.lines[i], FirstColon(call.lines[i]))

\* sgmlToXml has returned
SgmlRepaired == call.fn = "sgmlToXml" /\ ret.done

IsTag(token) == Head(token) = "<"

IsOpeningTag(token) == IsTag(token) /\ token[2] # "/"

IsBlank(token) == token = <<" ">>

\* the token before place i that is not blank is a tag
TagBefore(tokens, i) ==
    \E j \in 1..(i - 1) :
        /\ IsTag(tokens[j])
        /\ \A k \in (j + 1)..(i - 1) : IsBlank(tokens[k])

\* the token after place i that is not blank is a tag
TagAfter(tokens, i) ==
    \E j \in (i + 1)..Len(tokens) :
        /\ IsTag(tokens[j])
        /\ \A k \in (i + 1)..(j - 1) : IsBlank(tokens[k])

\* the tokens from place i on without the blanks next to a tag, the tags
\* without the dots of their names
RECURSIVE Tidied(_, _)
Tidied(tokens, i) ==
    IF i > Len(tokens) THEN <<>>
    ELSE IF IsBlank(tokens[i]) /\ (TagBefore(tokens, i) \/ TagAfter(tokens, i))
    THEN Tidied(tokens, i + 1)
    ELSE IF IsTag(tokens[i])
    THEN <<SelectSeq(tokens[i], LAMBDA c : c # ".")>> \o Tidied(tokens, i + 1)
    ELSE <<tokens[i]>> \o Tidied(tokens, i + 1)

\* the number of tokens that are not tags the tokens start with
RECURSIVE TextTokens(_)
TextTokens(tokens) ==
    IF tokens = <<>> \/ IsTag(Head(tokens)) THEN 0 ELSE 1 + TextTokens(Tail(tokens))

\* the closing tag of an opening tag
ClosingOf(tag) == <<"<", "/">> \o Tail(tag)

\* the tokens without the first one when it is the tag
WithoutLeading(tokens, tag) ==
    IF tokens # <<>> /\ Head(tokens) = tag THEN Tail(tokens) ELSE tokens

\* every opening tag followed by text gets its closing tag right after the
\* text, the closing tag of the source taking its place when it is there;
\* every other token stays as it is
RECURSIVE LeavesClosed(_)
LeavesClosed(tokens) ==
    IF tokens = <<>> THEN <<>>
    ELSE IF IsOpeningTag(Head(tokens)) /\ TextTokens(Tail(tokens)) > 0
    THEN <<Head(tokens)>>
            \o SubSeq(Tail(tokens), 1, TextTokens(Tail(tokens)))
            \o <<ClosingOf(Head(tokens))>>
            \o LeavesClosed(WithoutLeading(
                   SubSeq(Tail(tokens), TextTokens(Tail(tokens)) + 1, Len(Tail(tokens))),
                   ClosingOf(Head(tokens))))
    ELSE <<Head(tokens)>> \o LeavesClosed(Tail(tokens))

\* C26: in a text of tags with names of word characters and dots, the
\* repair (blanks next to tags and dots in tag names removed) gives every
\* opening tag that is followed by text exactly one closing tag, placed
\* right after that text, whether or not the source had that closing tag
\* there, and adds nothing after an opening tag followed by another tag or
\* after any other token.
C26_LeafTagsClosedOnce ==
    SgmlRepaired => ret.value = Flatten(LeavesClosed(Tidied(call.tokens, 1)))

\* C26 witness: <A><B>x</A> became <A><B>x</B></A>: the container <A> got
\* nothing and the leaf <B>, which had no closing tag, got one right after
\* its text
C26_Witness ==
    /\ SgmlRepaired
    /\ Len(call.tokens) = 4
    /\ call.tokens[1] = <<"<", "A", ">">>
    /\ call.tokens[2] = <<"<", "B", ">">>
    /\ call.tokens[3] = <<"x">>
    /\ call.tokens[4] = <<"<", "/", "A", ">">>
    /\ ret.value = <<"<", "A", ">", "<", "B", ">", "x", "<", "/", "B", ">", "<", "/", "A", ">">>

-----------------------------------------------------------------------------
(* Claims about two invocations of parseFile and the parse attempts of     *)
(* the OFX reader                                                           *)

PairRunning == call.fn = "parseFile"

Invocations == IF PairRunning THEN DOMAIN ret.tasks ELSE {}

\* the invocation reads an OFX file it could open
ReadsOfx(id) ==
    /\ extension(call.runs[id].path) \in {ExtOfx, ExtQfx}
    /\ call.runs[id].file.readable

\* C23: whatever the interleaving of two invocations of parseFile at their
\* awaits, an invocation that has returned has returned the result and the
\* errors that parseFile gives for its own path, options and file when it
\* runs alone.
C23_InvocationsIndependent ==
    \A id \in Invocations :
        ret.tasks[id].pc = "done"
            => ret.tasks[id].result
                   = parseFile(call.runs[id].path, call.runs[id].options,
                               call.runs[id].file)

\* C23 witness: both invocations have returned, the first began and was
\* suspended, the second then ran and returned with errors before the first
\* went on, and the first returned without errors
C23_Witness ==
    /\ PairRunning
    /\ ret.done
    /\ ret.order = <<1, 2, 2, 1>>
    /\ Len(ret.tasks[2].result.errors) > 0
    /\ ret.tasks[1].result.errors = <<>>
    /\ Len(ret.tasks[1].result.transactions) > 0

\* C24: the OFX reader's parse attempts are the strict one, then at most
\* the repaired one; the repaired attempt is made only on a body the strict
\* parse rejected, and always on such a body; when the repaired parse
\* rejects too, parseFile returns no transaction and exactly one error.
C24_StrictThenRepaired ==
    \A id \in Invocations :
        /\ ret.tasks[id].attempts \in {<<>>, <<"strict">>, <<"strict", "repaired">>}
        /\ ret.tasks[id].attempts = <<"strict", "repaired">>
               => ~ParsesStrict(call.runs[id].file.xml)
        /\ (ret.tasks[id].pc = "done" /\ ReadsOfx(id))
               => /\ ret.tasks[id].attempts[1] = "strict"
                  /\ Len(ret.tasks[id].attempts) = 2
                         <=> ~ParsesStrict(call.runs[id].file.xml)
        /\ (ret.tasks[id].pc = "done" /\ ReadsOfx(id)
                /\ ~ParsesRepaired(call.runs[id].file.xml))
               => /\ ret.tasks[id].result.transactions = <<>>
                  /\ Len(ret.tasks[id].result.errors) = 1
                  /\ ret.tasks[id].result.fileType = "ofx"

\* C24 witness: one invocation has returned from a body that parsed only
\* after the repair, with transactions, and the other from a body that
\* both parses rejected, after two attempts
C24_Witness ==
    /\ PairRunning
    /\ ret.done
    /\ call.runs[1].file.xml.form = "sgml"
    /\ ret.tasks[1].attempts = <<"strict", "repaired">>
    /\ Len(ret.tasks[1].result.transactions) > 0
    /\ call.runs[2].file.xml.form = "broken"
    /\ ReadsOfx(2)
    /\ ret.tasks[2].attempts = <<"strict", "repaired">>
    /\ Len(ret.tasks[2].result.errors) = 1

=============================================================================
